---- MODULE Spec2Model ----
(***************************************************************************)
(* Model of the search-tool layer (arXiv, Semantic Scholar, J-STAGE rate   *)
(* gates and URL collectors; CORE, the conference search and Brave, which  *)
(* need a credential), of the streaming relay of                           *)
(* POST /api/agents/deep-paper and of the chat client that consumes it.    *)
(*                                                                         *)
(* Time is Date.now() in milliseconds.  Every await of the source is a     *)
(* step boundary: what runs between two awaits is one action.              *)
(***************************************************************************)
EXTENDS Integers, Sequences, FiniteSets, TLC

(***************************************************************************)
(* Program constants.                                                      *)
(***************************************************************************)
ARXIV_COOLDOWN_MS == 30000
SEMANTIC_SCHOLAR_COOLDOWN_MS == 1000
JSTAGE_COOLDOWN_MS == 1000
\* the divisor of Math.ceil(waitTime / 1000) in the arXiv cooldown message
MS_PER_SECOND == 1000
\* z.number().min(1).max(100): the bounds of every tool's maxResults
SCHEMA_MIN_RESULTS == 1
SCHEMA_MAX_RESULTS == 100
\* Math.min(maxResults, 50) and Math.min(maxResults, 100)
SS_LIMIT_CAP == 50
JSTAGE_COUNT_CAP == 100
\* authors.slice(0, 3)
AUTHORS_SHOWN == 3

(***************************************************************************)
(* Bounds of the model.                                                    *)
(***************************************************************************)
\* tool invocations started over one run
MaxCalls == 2
\* advances of the clock over one run
MaxTicks == 2
\* chat requests sent over one run
MaxRequests == 2
\* items of one agent text stream
MaxChunks == 2
\* the longest link, in pieces, given to the PDF-link conversion
MaxLinkLen == 2
\* the most elements in an XML payload given to a parser on its own
MaxBlocks == 2
\* the most authors a record names
MaxAuthors == 4

\* amounts by which Date.now() advances between two steps
TickSteps == {500, 29500}
\* Date.now() when the process starts: far beyond every cooldown counted from
\* the initial lastCall of 0, so that the first call of a source is never gated
EpochStart == 2 * ARXIV_COOLDOWN_MS

\* the sources with a rate gate and a URL collector
Sources == {"arxiv", "ss", "jstage"}
\* the tools that read a credential from process.env when they are invoked
KeyedTools == {"core", "conference", "brave"}
Tools == Sources \cup KeyedTools
\* the chat sessions (DeepPaperChat's sessionId) whose agents invoke the tools
Sessions == {"s1", "s2"}
MainSession == "s1"

(***************************************************************************)
(* Upstream payloads: a sequence of raw records, of which the normalizer   *)
(* reads the identifier and the title ("" when the field is absent).       *)
(* wrap: the element that holds the record in an XML payload; bad: reading *)
(* the record's fields raises (a null in a JSON array).                    *)
(***************************************************************************)
GoodRecord == [id |-> "p1", title |-> "t1", wrap |-> "entry", bad |-> FALSE]
NoTitleRecord == [id |-> "p2", title |-> "", wrap |-> "entry", bad |-> FALSE]
BadRecord == [id |-> "", title |-> "", wrap |-> "entry", bad |-> TRUE]
ItemRecord == [id |-> "p3", title |-> "t3", wrap |-> "item", bad |-> FALSE]
Payloads == {<<>>, <<NoTitleRecord, GoodRecord>>,
             <<GoodRecord, BadRecord, ItemRecord>>}
\* the result count an upstream reports beside its records (0: none reported)
UpstreamTotals == {0, 7}

VARIABLES
    focus,      \* the source this run's invocations go to
    clock,      \* Date.now()
    ticks,      \* advances of the clock so far
    lastCall,   \* lastArxivCall, lastSemanticScholarCall, lastJstageCall
    collected,  \* collectedArxivUrls, collectedUrls, collectedJstageUrls
    calls,      \* the tool invocations started so far, in start order
    httpLog,    \* per source, the times of its last two fetches (0: none)
    keyPresent, \* process.env holds the credential of this run's tool
    genai       \* web-search-tool.ts: the GoogleGenAI singleton exists

toolVars == <<focus, clock, ticks, lastCall, collected, calls, httpLog,
              keyPresent, genai>>

VARIABLES
    cpc,               \* where handleSendMessage stands: "idle", "fetching"
                       \* (in await fetch), "reading" (in await reader.read())
    isLoading,         \* useState isLoading
    streamingMessage,  \* useState streamingMessage
    accumulatedText,   \* handleSendMessage's local accumulatedText
    abortController,   \* abortControllerRef.current is not null
    researchSteps,     \* useState researchSteps
    messages,          \* useState messages
    requests,          \* chat requests sent so far
    relay              \* the POST /api/agents/deep-paper of the latest request

chatVars == <<cpc, isLoading, streamingMessage, accumulatedText,
              abortController, researchSteps, messages, requests, relay>>

VARIABLES
    probe       \* one application of a pure function: its argument, its result

vars == <<toolVars, chatVars, probe>>

\* no function applied
NoProbe == [fn |-> "none"]

(***************************************************************************)
(* Helpers.                                                                *)
(***************************************************************************)
\* Math.ceil(a / b) for a >= 0, b > 0
CeilDiv(a, b) == (a + b - 1) \div b

RECURSIVE SelectSeqBy(_, _)
\* Array.prototype.filter by a set of kept indices, order kept
SelectSeqBy(s, keep) ==
    IF s = <<>> THEN <<>>
    ELSE LET rest == SelectSeqBy(Tail(s), {i - 1 : i \in keep \ {1}})
         IN IF 1 \in keep THEN <<Head(s)>> \o rest ELSE rest

(***************************************************************************)
(* Normalizers: raw payload -> the records a search keeps.                 *)
(***************************************************************************)
\* the records inside the elements of one kind, in payload order
Wrapped(payload, wrap) ==
    SelectSeqBy(payload, {i \in DOMAIN payload : payload[i].wrap = wrap})

\* parseArxivXML / parseEntry: the <entry> elements; an entry without id or
\* title yields null and is skipped, one whose parse raises is skipped too, the
\* others are kept in payload order
ArxivParse(payload) ==
    LET entries == Wrapped(payload, "entry")
    IN SelectSeqBy(entries, {i \in DOMAIN entries :
                                /\ ~entries[i].bad
                                /\ entries[i].id # ""
                                /\ entries[i].title # ""})

\* the first record whose mapping raises (0: none): .map() stops there
FirstBad(payload) ==
    IF \E i \in DOMAIN payload : payload[i].bad
    THEN CHOOSE i \in DOMAIN payload :
             /\ payload[i].bad
             /\ \A j \in 1..(i - 1) : ~payload[j].bad
    ELSE 0

\* the records .map() gets through before it raises, all of them if it does not
Mapped(payload) ==
    IF FirstBad(payload) = 0 THEN payload
    ELSE SubSeq(payload, 1, FirstBad(payload) - 1)

\* searchSemanticScholar: (data.data || []).map(...), every record kept,
\* paperId || '' and title || ''
SSParse(payload) ==
    [i \in DOMAIN payload |-> [id |-> payload[i].id, title |-> payload[i].title]]

\* variant (not the code's): <entry> and <item> elements alike
JstageAnyElements(payload) == payload

\* parseJstageXML: the <entry> elements, or the <item> elements when there is
\* no <entry>
JstageElements(payload) ==
    IF Wrapped(payload, "entry") # <<>> THEN Wrapped(payload, "entry")
    ELSE Wrapped(payload, "item")

\* parseJstageXML: every matched element kept (one whose parse raises is
\* skipped), title || 'No Title', doi || ''
JstageParse(payload) ==
    LET found == JstageElements(payload)
        kept == SelectSeqBy(found, {i \in DOMAIN found : ~found[i].bad})
    IN [i \in DOMAIN kept |->
           [id |-> kept[i].id,
            title |-> IF kept[i].title = "" THEN "No Title" ELSE kept[i].title]]

\* coreSearchTool: results.map(...), every record kept, id || '' and title || ''
CoreParse(payload) ==
    [i \in DOMAIN payload |-> [id |-> payload[i].id, title |-> payload[i].title]]

\* searchTopConferences: the "#### n." blocks that have a title line
ConferenceParse(payload) ==
    LET kept == SelectSeqBy(payload, {i \in DOMAIN payload :
                                         ~payload[i].bad /\ payload[i].title # ""})
    IN [i \in DOMAIN kept |-> [id |-> "", title |-> kept[i].title]]

\* the id of a collector entry: J-STAGE makes one up when the record has no doi
EntryId(paper, source) ==
    IF source = "J-STAGE" /\ paper.id = "" THEN "jstage-generated" ELSE paper.id

\* variant (not the code's): one entry for a search, its first paper's
EntriesOnePerCall(papers, source) ==
    IF papers = <<>> THEN <<>>
    ELSE <<[id |-> EntryId(papers[1], source), title |-> papers[1].title,
            source |-> source]>>

\* the entries one search pushes to its collector
Entries(papers, source) ==
    [i \in DOMAIN papers |->
        [id |-> EntryId(papers[i], source), title |-> papers[i].title,
         source |-> source]]

(***************************************************************************)
(* A tool invocation.  pc: "waiting" (in setTimeout), "fetching" (in await *)
(* fetch), "reading" (in await response.text()/json()), "returned",        *)
(* "thrown".  now, wakeAt are the invocation's locals; seenLast (the       *)
(* last-call timestamp the gate read) and sentAt (when the fetch went out, *)
(* 0: not yet) are kept beside them.  A finished invocation keeps what the *)
(* caller gets: the outcome, the papers, the fields of the returned value  *)
(* (shape), its totalResults and success fields where it has them, and the *)
(* error text that reaches the caller (error, "": none); beside them the   *)
(* cause of a failure, the number of collector entries it pushed,          *)
(* whether the payload it read was well-formed and held no record, and the *)
(* chat session whose agent made the invocation.                           *)
(***************************************************************************)
NewCall(src, pc, now, last, sentAt) ==
    [src |-> src, pc |-> pc, now |-> now, seenLast |-> last, wakeAt |-> 0,
     sentAt |-> sentAt, sent |-> sentAt # 0, cause |-> "none", retrySec |-> 0,
     papers |-> <<>>, shape |-> {}, total |-> 0, success |-> FALSE,
     error |-> "", pushed |-> 0, emptyPayload |-> FALSE,
     session |-> MainSession]

\* an invocation made by the agent of chat session q; the tools are not told
\* the session
NewCallBy(q, src, pc, now, last, sentAt) ==
    [NewCall(src, pc, now, last, sentAt) EXCEPT !.session = q]

\* the fields of the value a tool returns (outputSchema / the return statements)
ResultShape(src) ==
    CASE src \in {"arxiv", "ss"} -> {"papers"}
      [] src \in {"jstage", "core"} -> {"papers", "totalResults"}
      [] src = "conference" ->
           {"searchId", "query", "content", "citations", "papers", "success"}
      [] src = "brave" -> {"results", "searchQuery", "timestamp"}

\* the locals are gone when the invocation has settled; a thrown Error carries
\* its message to the caller
Settled(c, pc, cause, papers) ==
    [c EXCEPT !.pc = pc, !.cause = cause, !.papers = papers,
              !.now = 0, !.seenLast = 0, !.wakeAt = 0, !.sentAt = 0,
              !.shape = IF pc = "returned" THEN ResultShape(c.src) ELSE {},
              !.error = IF pc = "thrown" THEN cause ELSE ""]

\* a fetch to src goes out at time at
\* the payload of the response has been read
WithPayload(c, payload) == [c EXCEPT !.emptyPayload = (payload = <<>>)]

Logged(log, src, at) == [log EXCEPT ![src] = <<@[2], at>>]

InFlight(i, src, pc) ==
    /\ i \in DOMAIN calls
    /\ calls[i].src = src
    /\ calls[i].pc = pc

(***************************************************************************)
(* arXiv: searchArxiv, policy A (fail fast).                               *)
(***************************************************************************)
\* variant (not the code's): a gate that still rejects at exactly the cooldown
\* variant (not the code's): no gate
ArxivGateOpen(now, last) == FALSE

ArxivCooldownActiveInclusive(now, last) == now - last <= ARXIV_COOLDOWN_MS

\* if (timeSinceLastCall < ARXIV_COOLDOWN_MS)
ArxivCooldownActive(now, last) == now - last < ARXIV_COOLDOWN_MS

\* variant (not the code's): the seconds rounded down
ArxivRetryAfterFloor(now, last) ==
    (ARXIV_COOLDOWN_MS - (now - last)) \div MS_PER_SECOND

\* Math.ceil(waitTime / 1000), waitTime = ARXIV_COOLDOWN_MS - timeSinceLastCall
ArxivRetryAfterSec(now, last) ==
    CeilDiv(ARXIV_COOLDOWN_MS - (now - last), MS_PER_SECOND)

\* variant (not the code's): the timestamp recorded before the response.ok check
ArxivLastCallOnAnyResponse(outcome, last, now, clk) ==
    IF outcome # "network" THEN now ELSE last

\* lastArxivCall after await fetch: set to now (the time the search started,
\* not the response time) past the response.ok check, untouched otherwise
ArxivLastCallOnResponse(outcome, last, now, clk) ==
    IF outcome = "ok" THEN now ELSE last

\* variant (not the code's): the catch returns an empty result
ArxivOnErrorDegrade(c, cause) == Settled(c, "returned", cause, <<>>)

\* catch (error) { throw new Error(`Failed to search arXiv: ...`) }
ArxivOnError(c, cause) == Settled(c, "thrown", cause, <<>>)

\* the gate and, when it is open, the fetch: no await lies between them
ArxivStart(q) ==
    /\ focus = "arxiv"
    /\ Len(calls) < MaxCalls
    /\ LET now == clock
           last == lastCall["arxiv"]
           id == Len(calls) + 1
       IN IF ArxivCooldownActive(now, last)
          THEN /\ calls' = Append(calls,
                     [NewCallBy(q, "arxiv", "thrown", now, last, 0) EXCEPT
                         !.cause = "cooldown", !.error = "cooldown",
                         !.retrySec = ArxivRetryAfterSec(now, last)])
               /\ UNCHANGED httpLog
          ELSE /\ calls' = Append(calls, NewCallBy(q, "arxiv", "fetching", now, last, clock))
               /\ httpLog' = Logged(httpLog, "arxiv", clock)
    /\ UNCHANGED <<focus, keyPresent, genai, clock, ticks, lastCall, collected>>
    /\ UNCHANGED <<chatVars, probe>>

\* await fetch(url) settles: rejected, a non-2xx response, or a 2xx response
ArxivResponse(i, outcome) ==
    /\ InFlight(i, "arxiv", "fetching")
    /\ lastCall' = [lastCall EXCEPT
           !["arxiv"] = ArxivLastCallOnResponse(outcome, @, calls[i].now, clock)]
    /\ calls' = IF outcome = "ok"
                THEN [calls EXCEPT ![i].pc = "reading"]
                ELSE [calls EXCEPT ![i] = ArxivOnError(calls[i], outcome)]
    /\ UNCHANGED <<focus, keyPresent, genai, clock, ticks, collected, httpLog>>
    /\ UNCHANGED <<chatVars, probe>>

\* await response.text() settles; then parse, collect and return
ArxivBody(i, body) ==
    /\ InFlight(i, "arxiv", "reading")
    /\ IF ~body.ok
       THEN /\ calls' = [calls EXCEPT ![i] = ArxivOnError(calls[i], "body")]
            /\ UNCHANGED collected
       ELSE LET papers == ArxivParse(body.payload)
            IN /\ collected' = [collected EXCEPT
                      !["arxiv"] = @ \o Entries(papers, "arXiv")]
               /\ calls' = [calls EXCEPT
                      ![i] = [Settled(WithPayload(calls[i], body.payload),
                                      "returned", "none", papers)
                                 EXCEPT !.pushed = Len(papers)]]
    /\ UNCHANGED <<focus, keyPresent, genai, clock, ticks, lastCall, httpLog>>
    /\ UNCHANGED <<chatVars, probe>>

(***************************************************************************)
(* Semantic Scholar: searchSemanticScholar, policy B (blocking wait).      *)
(***************************************************************************)
\* if (timeSinceLastCall < SEMANTIC_SCHOLAR_COOLDOWN_MS)
\* variant (not the code's): the gate is shut whatever the last call
SSGateShut(now, last) == TRUE

SSCooldownActive(now, last) == now - last < SEMANTIC_SCHOLAR_COOLDOWN_MS

\* variant (not the code's): no wait at all
SSNoWait(now, last) == 0

\* waitTime = SEMANTIC_SCHOLAR_COOLDOWN_MS - timeSinceLastCall
SSWaitTime(now, last) == SEMANTIC_SCHOLAR_COOLDOWN_MS - (now - last)

\* lastSemanticScholarCall after await fetch: set to Date.now() (the time of
\* the response) past the response.ok check, untouched otherwise
SSLastCallOnResponse(outcome, last, now, clk) ==
    IF outcome = "ok" THEN clk ELSE last

\* catch (error) { throw new Error(`Failed to search Semantic Scholar: ...`) }
SSOnError(c, cause) == Settled(c, "thrown", cause, <<>>)

SSStart(q) ==
    /\ focus = "ss"
    /\ Len(calls) < MaxCalls
    /\ LET now == clock
           last == lastCall["ss"]
           id == Len(calls) + 1
       IN IF SSCooldownActive(now, last)
          THEN /\ calls' = Append(calls,
                     [NewCallBy(q, "ss", "waiting", now, last, 0) EXCEPT
                         !.wakeAt = now + SSWaitTime(now, last)])
               /\ UNCHANGED httpLog
          ELSE /\ calls' = Append(calls, NewCallBy(q, "ss", "fetching", now, last, clock))
               /\ httpLog' = Logged(httpLog, "ss", clock)
    /\ UNCHANGED <<focus, keyPresent, genai, clock, ticks, lastCall, collected>>
    /\ UNCHANGED <<chatVars, probe>>

\* the setTimeout of the wait fires, no earlier than its delay; then the fetch
SSTimer(i) ==
    /\ InFlight(i, "ss", "waiting")
    /\ clock >= calls[i].wakeAt
    /\ calls' = [calls EXCEPT ![i].pc = "fetching", ![i].sentAt = clock,
                              ![i].sent = TRUE]
    /\ httpLog' = Logged(httpLog, "ss", clock)
    /\ UNCHANGED <<focus, keyPresent, genai, clock, ticks, lastCall, collected>>
    /\ UNCHANGED <<chatVars, probe>>

SSResponse(i, outcome) ==
    /\ InFlight(i, "ss", "fetching")
    /\ lastCall' = [lastCall EXCEPT
           !["ss"] = SSLastCallOnResponse(outcome, @, calls[i].now, clock)]
    /\ calls' = IF outcome = "ok"
                THEN [calls EXCEPT ![i].pc = "reading"]
                ELSE [calls EXCEPT ![i] = SSOnError(calls[i], outcome)]
    /\ UNCHANGED <<focus, keyPresent, genai, clock, ticks, collected, httpLog>>
    /\ UNCHANGED <<chatVars, probe>>

\* await response.json() settles; then map and return.  Each record is pushed
\* to the collector inside the map, so a record that raises ends the search in
\* the catch with the records before it already collected
SSBody(i, body) ==
    /\ InFlight(i, "ss", "reading")
    /\ IF ~body.ok
       THEN /\ calls' = [calls EXCEPT ![i] = SSOnError(calls[i], "body")]
            /\ UNCHANGED collected
       ELSE LET papers == SSParse(Mapped(body.payload))
            IN /\ collected' = [collected EXCEPT
                      !["ss"] = @ \o Entries(papers, "Semantic Scholar")]
               /\ calls' = [calls EXCEPT
                      ![i] = [(IF FirstBad(body.payload) = 0
                               THEN Settled(WithPayload(calls[i], body.payload),
                                            "returned", "none", papers)
                               ELSE SSOnError(calls[i], "record"))
                                 EXCEPT !.pushed = Len(papers)]]
    /\ UNCHANGED <<focus, keyPresent, genai, clock, ticks, lastCall, httpLog>>
    /\ UNCHANGED <<chatVars, probe>>

(***************************************************************************)
(* J-STAGE: searchJstage, policy B (blocking wait).                        *)
(***************************************************************************)
\* if (timeSinceLastCall < JSTAGE_COOLDOWN_MS)
JstageCooldownActive(now, last) == now - last < JSTAGE_COOLDOWN_MS

\* waitTime = JSTAGE_COOLDOWN_MS - timeSinceLastCall
JstageWaitTime(now, last) == JSTAGE_COOLDOWN_MS - (now - last)

\* lastJstageCall after await fetch: set to Date.now() (the time of the
\* response) past the response.ok check, untouched otherwise
JstageLastCallOnResponse(outcome, last, now, clk) ==
    IF outcome = "ok" THEN clk ELSE last

\* catch (error) { throw new Error(`Failed to search J-STAGE: ...`) }
JstageOnError(c, cause) == Settled(c, "thrown", cause, <<>>)

JstageStart(q) ==
    /\ focus = "jstage"
    /\ Len(calls) < MaxCalls
    /\ LET now == clock
           last == lastCall["jstage"]
           id == Len(calls) + 1
       IN IF JstageCooldownActive(now, last)
          THEN /\ calls' = Append(calls,
                     [NewCallBy(q, "jstage", "waiting", now, last, 0) EXCEPT
                         !.wakeAt = now + JstageWaitTime(now, last)])
               /\ UNCHANGED httpLog
          ELSE /\ calls' = Append(calls, NewCallBy(q, "jstage", "fetching", now, last, clock))
               /\ httpLog' = Logged(httpLog, "jstage", clock)
    /\ UNCHANGED <<focus, keyPresent, genai, clock, ticks, lastCall, collected>>
    /\ UNCHANGED <<chatVars, probe>>

JstageTimer(i) ==
    /\ InFlight(i, "jstage", "waiting")
    /\ clock >= calls[i].wakeAt
    /\ calls' = [calls EXCEPT ![i].pc = "fetching", ![i].sentAt = clock,
                              ![i].sent = TRUE]
    /\ httpLog' = Logged(httpLog, "jstage", clock)
    /\ UNCHANGED <<focus, keyPresent, genai, clock, ticks, lastCall, collected>>
    /\ UNCHANGED <<chatVars, probe>>

JstageResponse(i, outcome) ==
    /\ InFlight(i, "jstage", "fetching")
    /\ lastCall' = [lastCall EXCEPT
           !["jstage"] = JstageLastCallOnResponse(outcome, @, calls[i].now, clock)]
    /\ calls' = IF outcome = "ok"
                THEN [calls EXCEPT ![i].pc = "reading"]
                ELSE [calls EXCEPT ![i] = JstageOnError(calls[i], outcome)]
    /\ UNCHANGED <<focus, keyPresent, genai, clock, ticks, collected, httpLog>>
    /\ UNCHANGED <<chatVars, probe>>

\* await response.text() settles; then parseJstageXML, extractTotalHits,
\* collect and return
JstageBody(i, body) ==
    /\ InFlight(i, "jstage", "reading")
    /\ IF ~body.ok
       THEN /\ calls' = [calls EXCEPT ![i] = JstageOnError(calls[i], "body")]
            /\ UNCHANGED collected
       ELSE LET papers == JstageParse(body.payload)
            IN /\ collected' = [collected EXCEPT
                      !["jstage"] = @ \o Entries(papers, "J-STAGE")]
               /\ calls' = [calls EXCEPT
                      ![i] = [Settled(WithPayload(calls[i], body.payload),
                                      "returned", "none", papers)
                                 EXCEPT !.pushed = Len(papers),
                                        !.total = body.total]]
    /\ UNCHANGED <<focus, keyPresent, genai, clock, ticks, lastCall, httpLog>>
    /\ UNCHANGED <<chatVars, probe>>

(***************************************************************************)
(* CORE: coreSearchTool.execute.  The request carries                      *)
(* `Bearer ${process.env.CORE_API_KEY || ''}`: the credential is not       *)
(* looked at before the fetch, and what the upstream answers to an empty   *)
(* bearer is its choice.  Every failure ends in the catch, which returns   *)
(* { papers: [], totalResults: 0 }.  There is no gate and no collector.    *)
(***************************************************************************)
\* variant (not the code's): the catch rethrows
CoreOnErrorThrow(c, cause) == Settled(c, "thrown", cause, <<>>)

\* catch (error) { return { papers: [], totalResults: 0 } }
CoreOnError(c, cause) == Settled(c, "returned", cause, <<>>)

\* variant (not the code's): a count of at least one
CoreTotalAtLeastOne(totalHits, papers) ==
    IF totalHits # 0 THEN totalHits ELSE Len(papers) + 1

\* totalResults: totalHits || papers.length
CoreTotal(totalHits, papers) == IF totalHits # 0 THEN totalHits ELSE Len(papers)

CoreStart ==
    /\ focus = "core"
    /\ Len(calls) < MaxCalls
    /\ calls' = Append(calls, NewCall("core", "fetching", clock, 0, clock))
    /\ UNCHANGED <<focus, keyPresent, genai, clock, ticks, lastCall, collected>>
    /\ UNCHANGED <<httpLog, chatVars, probe>>

\* await fetch(...) settles; !response.ok throws into the catch
CoreResponse(i, outcome) ==
    /\ InFlight(i, "core", "fetching")
    /\ calls' = IF outcome = "ok"
                THEN [calls EXCEPT ![i].pc = "reading"]
                ELSE [calls EXCEPT ![i] = CoreOnError(calls[i], outcome)]
    /\ UNCHANGED <<focus, keyPresent, genai, clock, ticks, lastCall, collected>>
    /\ UNCHANGED <<httpLog, chatVars, probe>>

\* await response.json() settles; then map and return.  A record whose
\* mapping raises ends the search in the catch
CoreBody(i, body) ==
    /\ InFlight(i, "core", "reading")
    /\ calls' = [calls EXCEPT ![i] =
           IF ~body.ok THEN CoreOnError(calls[i], "body")
           ELSE IF FirstBad(body.payload) # 0
                THEN CoreOnError(calls[i], "record")
                ELSE [Settled(WithPayload(calls[i], body.payload),
                              "returned", "none", CoreParse(body.payload))
                         EXCEPT !.total = CoreTotal(body.total, body.payload)]]
    /\ UNCHANGED <<focus, keyPresent, genai, clock, ticks, lastCall, collected>>
    /\ UNCHANGED <<httpLog, chatVars, probe>>

(***************************************************************************)
(* Conference search: googleGroundingSearchTool.execute over               *)
(* searchTopConferences.  The client is made on the first call             *)
(* (getGenAIClient) and throws when no key is set; searchTopConferences    *)
(* catches everything and returns the error text as content, and execute   *)
(* returns it with success: true.                                          *)
(***************************************************************************)
\* searchTopConferences' catch: { content: <error text>, citations: [],
\* papers: [] }, returned by execute with success: true
ConferenceOnError(c, cause) ==
    [Settled(c, "returned", cause, <<>>) EXCEPT !.error = cause,
                                                 !.success = TRUE]

ConferenceStart ==
    /\ focus = "conference"
    /\ Len(calls) < MaxCalls
    /\ IF ~genai /\ ~keyPresent
       THEN /\ calls' = Append(calls,
                  ConferenceOnError(
                      NewCall("conference", "fetching", clock, 0, 0), "nokey"))
            /\ UNCHANGED genai
       ELSE /\ calls' = Append(calls,
                  NewCall("conference", "fetching", clock, 0, clock))
            /\ genai' = TRUE
    /\ UNCHANGED <<focus, keyPresent, clock, ticks, lastCall, collected>>
    /\ UNCHANGED <<httpLog, chatVars, probe>>

\* await generateContent(...) settles; then the papers are read from the text
ConferenceResponse(i, outcome, payload) ==
    /\ InFlight(i, "conference", "fetching")
    /\ calls' = [calls EXCEPT ![i] =
           IF outcome = "ok"
           THEN [Settled(WithPayload(calls[i], payload), "returned", "none",
                         ConferenceParse(payload))
                    EXCEPT !.success = TRUE]
           ELSE ConferenceOnError(calls[i], outcome)]
    /\ UNCHANGED <<focus, keyPresent, genai, clock, ticks, lastCall, collected>>
    /\ UNCHANGED <<httpLog, chatVars, probe>>

(***************************************************************************)
(* Brave: braveSearchTool.execute over searchWithBraveAPI, which throws    *)
(* when the key is missing, on a non-2xx response and on a failed read;    *)
(* execute's catch returns { results: [], searchQuery, timestamp }.  The   *)
(* read of a non-2xx response's text is folded into the response step:     *)
(* both its outcomes end in the same catch.                                *)
(***************************************************************************)
\* catch (error) { return { results: [], searchQuery: query, timestamp } }
BraveOnError(c, cause) == Settled(c, "returned", cause, <<>>)

\* results.slice(0, maxResults).map(...): title, url and description
BraveParse(payload) ==
    [i \in DOMAIN payload |-> [id |-> "", title |-> payload[i].title]]

BraveStart ==
    /\ focus = "brave"
    /\ Len(calls) < MaxCalls
    /\ calls' = Append(calls,
           IF ~keyPresent
           THEN BraveOnError(NewCall("brave", "fetching", clock, 0, 0), "nokey")
           ELSE NewCall("brave", "fetching", clock, 0, clock))
    /\ UNCHANGED <<focus, keyPresent, genai, clock, ticks, lastCall, collected>>
    /\ UNCHANGED <<httpLog, chatVars, probe>>

BraveResponse(i, outcome) ==
    /\ InFlight(i, "brave", "fetching")
    /\ calls' = IF outcome = "ok"
                THEN [calls EXCEPT ![i].pc = "reading"]
                ELSE [calls EXCEPT ![i] = BraveOnError(calls[i], outcome)]
    /\ UNCHANGED <<focus, keyPresent, genai, clock, ticks, lastCall, collected>>
    /\ UNCHANGED <<httpLog, chatVars, probe>>

BraveBody(i, body) ==
    /\ InFlight(i, "brave", "reading")
    /\ calls' = [calls EXCEPT ![i] =
           IF ~body.ok THEN BraveOnError(calls[i], "body")
           ELSE IF FirstBad(body.payload) # 0
                THEN BraveOnError(calls[i], "record")
                ELSE Settled(WithPayload(calls[i], body.payload),
                             "returned", "none", BraveParse(body.payload))]
    /\ UNCHANGED <<focus, keyPresent, genai, clock, ticks, lastCall, collected>>
    /\ UNCHANGED <<httpLog, chatVars, probe>>

(***************************************************************************)
(* clearCollectedArxivUrls / clearCollectedUrls / clearCollectedJstageUrls *)
(***************************************************************************)
Clear(s) ==
    /\ focus = s
    /\ collected[s] # <<>>
    /\ collected' = [collected EXCEPT ![s] = <<>>]
    /\ UNCHANGED <<focus, keyPresent, genai, clock, ticks, lastCall, calls>>
    /\ UNCHANGED <<httpLog, chatVars, probe>>

(***************************************************************************)
(* The orchestrator turns to another tool (deepPaperAgent's tools).        *)
(***************************************************************************)
Turn(s) ==
    /\ focus # s
    /\ focus' = s
    /\ UNCHANGED <<keyPresent, genai, clock, ticks, lastCall, collected, calls>>
    /\ UNCHANGED <<httpLog, chatVars, probe>>

(***************************************************************************)
(* The clock and the tool layer's specification.                           *)
(***************************************************************************)
Tick(d) ==
    /\ ticks < MaxTicks
    /\ clock' = clock + d
    /\ ticks' = ticks + 1
    /\ UNCHANGED <<focus, keyPresent, genai, lastCall, collected, calls, httpLog>>
    /\ UNCHANGED <<chatVars, probe>>

FetchOutcomes == {"ok", "http", "network"}
\* what the body read settles to: a failure, or a payload
Bodies == {[ok |-> FALSE, payload |-> <<>>, total |-> 0],
           [ok |-> TRUE, payload |-> <<GoodRecord, BadRecord, ItemRecord>>,
            total |-> 0]}
            \cup {[ok |-> TRUE, payload |-> p, total |-> t] :
                      p \in {<<>>, <<NoTitleRecord, GoodRecord>>},
                      t \in UpstreamTotals}

ToolNext ==
    \/ \E d \in TickSteps : Tick(d)
    \/ ArxivStart(MainSession)
    \/ \E i \in 1..MaxCalls, o \in FetchOutcomes : ArxivResponse(i, o)
    \/ \E i \in 1..MaxCalls, b \in Bodies : ArxivBody(i, b)
    \/ SSStart(MainSession)
    \/ \E i \in 1..MaxCalls : SSTimer(i)
    \/ \E i \in 1..MaxCalls, o \in FetchOutcomes : SSResponse(i, o)
    \/ \E i \in 1..MaxCalls, b \in Bodies : SSBody(i, b)
    \/ JstageStart(MainSession)
    \/ \E i \in 1..MaxCalls : JstageTimer(i)
    \/ \E i \in 1..MaxCalls, o \in FetchOutcomes : JstageResponse(i, o)
    \/ \E i \in 1..MaxCalls, b \in Bodies : JstageBody(i, b)
    \/ CoreStart
    \/ \E i \in 1..MaxCalls, o \in FetchOutcomes : CoreResponse(i, o)
    \/ \E i \in 1..MaxCalls, b \in Bodies : CoreBody(i, b)
    \/ ConferenceStart
    \/ \E i \in 1..MaxCalls, o \in FetchOutcomes, p \in Payloads :
           ConferenceResponse(i, o, p)
    \/ BraveStart
    \/ \E i \in 1..MaxCalls, o \in FetchOutcomes : BraveResponse(i, o)
    \/ \E i \in 1..MaxCalls, b \in Bodies : BraveBody(i, b)

(***************************************************************************)
(* Streaming relay: POST of app/api/agents/deep-paper/route.ts.            *)
(*                                                                         *)
(* A relay's pc: "starting" (before await agent.stream returns),           *)
(* "streaming" (in the for await over response.textStream), "closed"       *)
(* (controller.close() done), "r400", "r500" (a JSON error response),      *)
(* "crashed" (start() rejected: enqueue on a stream its consumer           *)
(* cancelled throws, in the try and again in the catch).                   *)
(* items: the text stream's items pulled so far; threw: the text stream    *)
(* failed; out: the frames enqueued; readPos: how many of them the client  *)
(* consumed; clientEnd: how handleSendMessage ended for this request       *)
(* ("none": not yet); reply: the non-user messages it added for it;         *)
(* pending: the tool invocations that were under way when it ended.        *)
(*                                                                         *)
(* Only the latest request's relay is followed: a relay shares no state    *)
(* with the relay of another request, and the client reads only the        *)
(* response of its latest request.  Before the first request pc is "none". *)
(***************************************************************************)
\* text stream items: text deltas, "" included
Chunks == {"", "a"}
\* error.message of a failing text stream
ErrTexts == {"", "boom"}

ChunkFrame(chunk) == [type |-> "chunk", text |-> chunk]
DoneFrame == [type |-> "done", text |-> ""]
ErrorFrame(text) == [type |-> "error", text |-> text]

NewRelay(msg) ==
    [msg |-> msg, pc |-> "starting", items |-> <<>>, threw |-> FALSE,
     out |-> <<>>, readPos |-> 0, cancelled |-> FALSE, clientEnd |-> "none",
     reply |-> <<>>, pending |-> {}]

NoRelay == [NewRelay("") EXCEPT !.pc = "none"]

\* the frames enqueued when the text stream ends: JSON.stringify({ done: true })
RelayEndFrames == <<DoneFrame>>

\* variant (not the code's): the catch falls through to the completion signal
RelayCatchThenDone(text) == <<ErrorFrame(text), DoneFrame>>

\* the frames enqueued by the catch: JSON.stringify({ error: error.message })
RelayCatchFrames(text) == <<ErrorFrame(text)>>

\* const { message } = await request.json(); if (!message) 400;
\* mastra.getAgent; await agent.stream(...): a stream, or a throw caught as 500
RelayAccept(outcome) ==
    /\ relay.pc = "starting"
    /\ relay' = [relay EXCEPT !.pc =
           IF relay.msg = "" THEN "r400"
           ELSE IF outcome = "throw" THEN "r500"
           ELSE "streaming"]
    /\ UNCHANGED <<cpc, isLoading, streamingMessage, accumulatedText,
                   abortController, researchSteps, messages, requests>>
    /\ UNCHANGED <<toolVars, probe>>

\* for await (const chunk of response.textStream) { controller.enqueue(...) }
RelayChunk(chunk) ==
    /\ relay.pc = "streaming"
    /\ Len(relay.items) < MaxChunks
    /\ relay' = [relay EXCEPT !.items = Append(@, chunk),
           !.out = IF relay.cancelled THEN @
                      ELSE Append(@, ChunkFrame(chunk)),
           !.pc = IF relay.cancelled THEN "crashed" ELSE @]
    /\ UNCHANGED <<cpc, isLoading, streamingMessage, accumulatedText,
                   abortController, researchSteps, messages, requests>>
    /\ UNCHANGED <<toolVars, probe>>

\* the text stream ends: enqueue the completion signal, controller.close()
RelayEnd ==
    /\ relay.pc = "streaming"
    /\ relay' = [relay EXCEPT !.out = IF relay.cancelled THEN @ ELSE @ \o RelayEndFrames,
           !.pc = IF relay.cancelled THEN "crashed" ELSE "closed"]
    /\ UNCHANGED <<cpc, isLoading, streamingMessage, accumulatedText,
                   abortController, researchSteps, messages, requests>>
    /\ UNCHANGED <<toolVars, probe>>

\* the text stream throws: catch, enqueue the error frame, controller.close()
RelayStreamError(text) ==
    /\ relay.pc = "streaming"
    /\ relay' = [relay EXCEPT !.threw = TRUE,
           !.out = IF relay.cancelled THEN @
                      ELSE @ \o RelayCatchFrames(text),
           !.pc = IF relay.cancelled THEN "crashed" ELSE "closed"]
    /\ UNCHANGED <<cpc, isLoading, streamingMessage, accumulatedText,
                   abortController, researchSteps, messages, requests>>
    /\ UNCHANGED <<toolVars, probe>>

\* the response stream is cancelled once its consumer has gone away (abort,
\* lost connection); the relay registers no cancel callback and goes on
RelayCancel ==
    /\ relay.pc = "streaming"
    /\ relay.clientEnd \in {"abort", "network"}
    /\ ~relay.cancelled
    /\ relay' = [relay EXCEPT !.cancelled = TRUE]
    /\ UNCHANGED <<cpc, isLoading, streamingMessage, accumulatedText,
                   abortController, researchSteps, messages, requests>>
    /\ UNCHANGED <<toolVars, probe>>

(***************************************************************************)
(* Chat client: DeepPaperChat (handleSendMessage, handleCancelResearch)    *)
(* behind ChatInput.  A text is the sequence of its non-empty pieces, so   *)
(* that appending a piece is string concatenation.                         *)
(***************************************************************************)
\* what the user may have typed into the textarea
Inputs == {"", " ", "q"}

\* String.prototype.trim
Trim(input) == IF input = " " THEN "" ELSE input

\* text + piece
Concat(text, piece) == IF piece = "" THEN text ELSE Append(text, piece)

Message(role, kind, text) == [role |-> role, kind |-> kind, text |-> text]
\* the message of the initial useState
Welcome == Message("system", "welcome", <<>>)
\* addMessage({ role: 'system', content: `❌ Error: ${data.error}` })
StreamErrorMessage(text) == Message("system", "stream-error", <<text>>)
\* addMessage({ role: 'assistant', content: accumulatedText })
AssistantMessage(text) == Message("assistant", "reply", text)
\* variant (not the code's): an AbortError reported like any other error
AbortAsFailure == Message("system", "failure", <<"aborted">>)

\* addMessage({ role: 'system', content: '🔄 リサーチがキャンセルされました' })
CancelledMessage == Message("system", "cancelled", <<>>)
\* addMessage({ role: 'system', content: `❌ エラーが発生しました: ${error.message}` })
FailureMessage(text) == Message("system", "failure", <<text>>)

\* the messages the done frame adds: if (accumulatedText) addMessage(assistant)
OnDoneMessages(acc) == IF acc # <<>> THEN <<AssistantMessage(acc)>> ELSE <<>>

\* the messages an error frame adds: if (data.error) addMessage(system)
OnErrorMessages(text) == IF text # "" THEN <<StreamErrorMessage(text)>> ELSE <<>>

\* the tool names the client looks for in a chunk
MarkerWords == {"apiStrategyTool", "braveSearchTool", "arxiv",
                "citationAnalysisTool", "trendSynthesisTool"}

\* a chunk that names two tools
TwoMarkers == "apiStrategyTool braveSearchTool"

\* data.chunk.includes(word)
ChunkIncludes(chunk, word) ==
    \/ chunk = word
    \/ chunk = TwoMarkers /\ word \in {"apiStrategyTool", "braveSearchTool"}

\* the phase of the step a chunk adds, "" for none: the else-if chain of the
\* phase detection, whose first branch only sets currentPhase
PhaseOf(chunk) ==
    IF ChunkIncludes(chunk, "apiStrategyTool") THEN ""
    ELSE IF ChunkIncludes(chunk, "braveSearchTool") THEN "survey"
    ELSE IF ChunkIncludes(chunk, "arxiv") THEN "collection"
    ELSE IF ChunkIncludes(chunk, "citationAnalysisTool") THEN "citation"
    ELSE IF ChunkIncludes(chunk, "trendSynthesisTool") THEN "trend"
    ELSE ""

\* setResearchSteps([{ phase: '戦略策定フェーズ', status: 'in-progress', ... }])
FirstStep == [phase |-> "strategy", status |-> "in-progress"]

\* prev.map(step => ({ ...step, status: 'completed' }))
Completed(steps) ==
    [i \in DOMAIN steps |-> [steps[i] EXCEPT !.status = "completed"]]

\* setResearchSteps(prev => [...prev.map(completed), { phase, 'in-progress' }])
AddStep(steps, phase) ==
    Append(Completed(steps), [phase |-> phase, status |-> "in-progress"])

\* what a chunk with text does to the research steps
OnChunkSteps(steps, chunk) ==
    IF PhaseOf(chunk) = "" THEN steps ELSE AddStep(steps, PhaseOf(chunk))

RECURSIVE ProcessLines(_, _)
\* for (const line of lines): the frames of one read, in order.  An error frame
\* with a truthy error and a done frame end the for loop (break), not the read
\* loop.  st: accumulatedText, streamingMessage, researchSteps, the
\* messages added.
ProcessLines(frames, st) ==
    IF frames = <<>> THEN st
    ELSE LET f == Head(frames)
         IN IF f.type = "error" /\ f.text # ""
            THEN [st EXCEPT !.added = @ \o OnErrorMessages(f.text)]
            ELSE IF f.type = "done"
            THEN [st EXCEPT !.added = @ \o OnDoneMessages(st.acc),
                            !.steps = Completed(@),
                            !.streaming = <<>>]
            ELSE IF f.type = "chunk" /\ f.text # ""
            THEN ProcessLines(Tail(frames),
                     [st EXCEPT !.acc = Concat(@, f.text),
                                !.steps = OnChunkSteps(@, f.text),
                                !.streaming = Concat(st.acc, f.text)])
            ELSE ProcessLines(Tail(frames), st)

\* the frames one read hands to the for loop: the first k of the bytes not read
\* yet; when the read ends inside the k-th frame, neither half of that frame
\* parses (JSON.parse throws on the head, the tail does not start with "data: ")
ReadFrames(rel, k, torn) ==
    SubSeq(rel.out, rel.readPos + 1, rel.readPos + (IF torn THEN k - 1 ELSE k))

\* variant (not the code's): a finally that leaves isLoading set
FinallyStillLoading ==
    [isLoading |-> TRUE, streamingMessage |-> <<>>, abortController |-> FALSE]

\* the outer finally of handleSendMessage
ClientFinally ==
    [isLoading |-> FALSE, streamingMessage |-> <<>>, abortController |-> FALSE]

\* the tool invocations that have started and not settled
UnderWay == {i \in DOMAIN calls : calls[i].pc \in {"waiting", "fetching", "reading"}}

\* handleSendMessage leaves through its catch (added: the message it adds) or
\* its normal end, and then its finally
EndRequest(way, added) ==
    /\ cpc' = "idle"
    /\ isLoading' = ClientFinally.isLoading
    /\ streamingMessage' = ClientFinally.streamingMessage
    /\ abortController' = ClientFinally.abortController
    /\ messages' = messages \o added
    /\ relay' = [relay EXCEPT !.clientEnd = way,
                                !.reply = @ \o added,
                                !.pending = UnderWay]
    /\ UNCHANGED <<accumulatedText, researchSteps, requests>>
    /\ UNCHANGED <<toolVars, probe>>

\* variant (not the code's): a send that only looks at the text
CanSendWhileLoading(input, disabled) == Trim(input) # ""

\* ChatInput.handleSubmit: if (message.trim() && !disabled), with
\* disabled={isLoading}; handleSendMessage: if (isLoading) return
CanSend(input, disabled) == Trim(input) # "" /\ ~disabled

\* handleSendMessage past its guard: add the user message, reset the state,
\* create the AbortController and issue the fetch
DoSend(input) ==
    /\ requests < MaxRequests
    /\ messages' = Append(messages, Message("user", "user", <<Trim(input)>>))
    /\ isLoading' = TRUE
    /\ streamingMessage' = <<>>
    /\ abortController' = TRUE
    /\ relay' = NewRelay(Trim(input))
    /\ requests' = requests + 1
    /\ cpc' = "fetching"
    /\ researchSteps' = <<>>
    /\ UNCHANGED accumulatedText

\* a send that goes through: ChatInput.handleSubmit and handleSendMessage
Submit(input) ==
    /\ cpc = "idle"
    /\ CanSend(input, isLoading)
    /\ DoSend(input)
    /\ UNCHANGED <<toolVars, probe>>

\* what the last press of the send button found and did
Pressed(input, disabled) ==
    [fn |-> "handleSubmit", arg |-> input, disabled |-> disabled,
     sent |-> CanSend(input, disabled)]

\* the send button or the Enter key pressed at any time, whatever the textarea
\* holds: ChatInput.handleSubmit and, through it, handleSendMessage
HandleSubmit(input) ==
    /\ probe' = Pressed(input, isLoading)
    /\ IF CanSend(input, isLoading)
       THEN DoSend(input)
       ELSE UNCHANGED chatVars
    /\ UNCHANGED toolVars

\* await fetch resolves with the response's status and headers:
\* if (!response.ok) throw; else getReader(), accumulatedText = ''
ClientResponse ==
    /\ cpc = "fetching"
    /\ relay.pc \in {"r400", "r500", "streaming", "closed"}
    /\ IF relay.pc \in {"r400", "r500"}
       THEN EndRequest("http", <<FailureMessage("HTTP error")>>)
       ELSE /\ cpc' = "reading"
            /\ accumulatedText' = <<>>
            /\ researchSteps' = <<FirstStep>>
            /\ UNCHANGED <<isLoading, streamingMessage, abortController,
                           messages, requests, relay>>
            /\ UNCHANGED <<toolVars, probe>>

\* await fetch rejects: the network failed
ClientFetchFail ==
    /\ cpc = "fetching"
    /\ EndRequest("network", <<FailureMessage("fetch failed")>>)

\* await reader.read() resolves with bytes: decode, split, process the lines
ClientRead(k, torn) ==
    /\ cpc = "reading"
    /\ k \in 1..(Len(relay.out) - relay.readPos)
    /\ LET st == ProcessLines(ReadFrames(relay, k, torn),
                     [acc |-> accumulatedText, streaming |-> streamingMessage,
                      steps |-> researchSteps, added |-> <<>>])
       IN /\ accumulatedText' = st.acc
          /\ researchSteps' = st.steps
          /\ streamingMessage' = st.streaming
          /\ messages' = messages \o st.added
          /\ relay' = [relay EXCEPT !.readPos = @ + k,
                                      !.reply = @ \o st.added]
    /\ UNCHANGED <<cpc, isLoading, abortController, requests>>
    /\ UNCHANGED <<toolVars, probe>>

\* await reader.read() resolves with done: break, releaseLock, finally
ClientReadEnd ==
    /\ cpc = "reading"
    /\ relay.pc = "closed"
    /\ relay.readPos = Len(relay.out)
    /\ EndRequest("eof", <<>>)

\* await reader.read() rejects: the connection was lost
ClientReadFail ==
    /\ cpc = "reading"
    /\ EndRequest("network", <<FailureMessage("network error")>>)

\* handleCancelResearch: if (abortControllerRef.current && isLoading) abort();
\* the pending fetch or read rejects with an AbortError
ClientAbort ==
    /\ cpc \in {"fetching", "reading"}
    /\ abortController
    /\ isLoading
    /\ EndRequest("abort", <<CancelledMessage>>)

(***************************************************************************)
(* Specifications.                                                         *)
(***************************************************************************)
ChatNext ==
    \/ \E input \in Inputs : Submit(input)
    \/ \E o \in {"stream", "throw"} : RelayAccept(o)
    \/ \E c \in Chunks : RelayChunk(c)
    \/ RelayEnd
    \/ \E e \in ErrTexts : RelayStreamError(e)
    \/ RelayCancel
    \/ ClientResponse
    \/ ClientFetchFail
    \/ \E k \in 1..(MaxChunks + 1), torn \in BOOLEAN : ClientRead(k, torn)
    \/ ClientReadEnd
    \/ ClientReadFail
    \/ ClientAbort

\* the tool layer alone: the chat stays as constructed.  Each run keeps to one
\* source (focus): the sources share no variable but the clock
InitTools ==
    /\ focus \in Tools
    /\ clock = EpochStart
    /\ ticks = 0
    /\ lastCall = [s \in Sources |-> 0]
    /\ collected = [s \in Sources |-> <<>>]
    /\ calls = <<>>
    /\ httpLog = [s \in Sources |-> <<0, 0>>]
    /\ keyPresent \in (IF focus \in KeyedTools THEN BOOLEAN ELSE {TRUE})
    /\ genai = FALSE
    /\ probe = NoProbe
    /\ cpc = "idle"
    /\ isLoading = FALSE
    /\ streamingMessage = <<>>
    /\ accumulatedText = <<>>
    /\ abortController = FALSE
    /\ messages = <<Welcome>>
    /\ requests = 0
    /\ researchSteps = <<>>
    /\ relay = NoRelay

SpecTools == InitTools /\ [][ToolNext]_vars

\* the relay and the chat client alone: the tool layer stays as constructed
InitChat ==
    /\ focus = "arxiv"
    /\ clock = EpochStart
    /\ ticks = 0
    /\ lastCall = [s \in Sources |-> 0]
    /\ collected = [s \in Sources |-> <<>>]
    /\ calls = <<>>
    /\ httpLog = [s \in Sources |-> <<0, 0>>]
    /\ keyPresent = TRUE
    /\ genai = FALSE
    /\ probe = NoProbe
    /\ cpc = "idle"
    /\ isLoading = FALSE
    /\ streamingMessage = <<>>
    /\ accumulatedText = <<>>
    /\ abortController = FALSE
    /\ messages = <<Welcome>>
    /\ requests = 0
    /\ researchSteps = <<>>
    /\ relay = NoRelay

SpecChat == InitChat /\ [][ChatNext]_vars

(***************************************************************************)
(* A chat session whose agent searches arXiv while it streams: the relay   *)
(* and the client as above, and the orchestrator invoking the arXiv tool   *)
(* (deepPaperAgent's tools, mastra/index.ts) while agent.stream is under   *)
(* way.  An invocation that has started runs on whatever the relay and the *)
(* client do.  What is followed here is the searches against the user's    *)
(* abort: the agent's answer carries no text, the network does not fail,   *)
(* and the clock stands still.                                             *)
(***************************************************************************)
AgentArxivStart ==
    /\ relay.pc = "streaming"
    /\ ArxivStart(MainSession)

SessionNext ==
    \/ \E input \in Inputs : Submit(input)
    \/ \E o \in {"stream", "throw"} : RelayAccept(o)
    \/ RelayEnd
    \/ RelayCancel
    \/ ClientResponse
    \/ \E k \in 1..(MaxChunks + 1), torn \in BOOLEAN : ClientRead(k, torn)
    \/ ClientReadEnd
    \/ ClientAbort
    \/ AgentArxivStart
    \/ \E i \in 1..MaxCalls, o \in FetchOutcomes : ArxivResponse(i, o)
    \/ \E i \in 1..MaxCalls, b \in Bodies : ArxivBody(i, b)

SpecSession == InitChat /\ [][SessionNext]_vars

\* the relay and the chat client with every press of the send button followed,
\* those that send nothing included
InputNext ==
    \/ \E input \in Inputs : HandleSubmit(input)
    \/ \E o \in {"stream", "throw"} : RelayAccept(o)
    \/ \E c \in Chunks : RelayChunk(c)
    \/ RelayEnd
    \/ ClientResponse
    \/ \E k \in 1..(MaxChunks + 1) : ClientRead(k, FALSE)
    \/ ClientReadEnd
    \/ ClientAbort

SpecInput == InitChat /\ [][InputNext]_vars

\* what the agent's text stream may carry when its text names the tools
PhaseChunks == {"a", "apiStrategyTool", "braveSearchTool", "arxiv", TwoMarkers}

\* the relay and the chat client with a text stream that names the tools
ProgressNext ==
    \/ Submit("q")
    \/ RelayAccept("stream")
    \/ \E c \in PhaseChunks : RelayChunk(c)
    \/ RelayEnd
    \/ RelayStreamError("boom")
    \/ ClientResponse
    \/ \E k \in 1..(MaxChunks + 1), torn \in BOOLEAN : ClientRead(k, torn)
    \/ ClientReadEnd
    \/ ClientAbort

SpecProgress == InitChat /\ [][ProgressNext]_vars

\* what runs without the user: the relay's handler, and the continuations of
\* the client's awaits once the response's status or bytes have arrived
RelaySteps ==
    \/ \E o \in {"stream", "throw"} : RelayAccept(o)
    \/ \E c \in Chunks : RelayChunk(c)
    \/ RelayEnd
    \/ \E t \in ErrTexts : RelayStreamError(t)

ClientSteps ==
    \/ ClientResponse
    \/ \E k \in 1..(MaxChunks + 1), torn \in BOOLEAN : ClientRead(k, torn)
    \/ ClientReadEnd

\* the relay's text stream is finite and the event loop runs every
\* continuation that is ready
SpecChatLive ==
    InitChat /\ [][ChatNext]_vars /\ WF_vars(RelaySteps \/ ClientSteps)

(***************************************************************************)
(* The pure functions of the tools, each applied once to an argument drawn *)
(* when the run starts.  A link is a sequence of pieces: the path markers  *)
(* "/abs/" and "/pdf/", the suffix ".pdf" and other text ("x").            *)
(***************************************************************************)
LinkPieces == {"/abs/", "/pdf/", ".pdf", "x"}
Links == UNION {[1..n -> LinkPieces] : n \in 1..MaxLinkLen}

\* String.prototype.includes
Includes(link, piece) == \E k \in DOMAIN link : link[k] = piece

\* String.prototype.replace with a string pattern: the first occurrence only
ReplaceFirst(link, piece, by) ==
    IF Includes(link, piece)
    THEN LET k == CHOOSE k \in DOMAIN link :
                      link[k] = piece /\ \A j \in 1..(k - 1) : link[j] # piece
         IN [link EXCEPT ![k] = by]
    ELSE link

\* String.prototype.endsWith
EndsWith(link, piece) == link # <<>> /\ link[Len(link)] = piece

\* variant (not the code's): the suffix is appended to converted links only
ArxivPdfLinkSuffixOnConverted(link) ==
    IF Includes(link, "/abs/")
    THEN Append(ReplaceFirst(link, "/abs/", "/pdf/"), ".pdf")
    ELSE link

\* searchArxiv, simplifiedPapers: '/abs/' becomes '/pdf/', '.pdf' is appended
\* when the link does not end with it
ArxivPdfLink(link) ==
    LET pdfLink == IF Includes(link, "/abs/")
                   THEN ReplaceFirst(link, "/abs/", "/pdf/")
                   ELSE link
    IN IF ~EndsWith(pdfLink, ".pdf") THEN Append(pdfLink, ".pdf") ELSE pdfLink

\* the maxResults a search function can be called with
MaxResultsValues == {-1, 0, 1, 50, 51, 100, 101}

Min(a, b) == IF a < b THEN a ELSE b

\* the count each search sends upstream: max_results, limit, count, limit
ArxivMaxResultsSent(maxResults) == maxResults
SSLimitSent(maxResults) == Min(maxResults, SS_LIMIT_CAP)
JstageCountSent(maxResults) == Min(maxResults, JSTAGE_COUNT_CAP)
CoreLimitSent(maxResults) == maxResults

\* the XML payloads given to parseJstageXML on its own
Blocks == {GoodRecord, NoTitleRecord, BadRecord, ItemRecord,
           [id |-> "p4", title |-> "t4", wrap |-> "item", bad |-> FALSE]}
BlockPayloads == UNION {[1..n -> Blocks] : n \in 0..MaxBlocks}

\* an author of a CORE record: a string, or an object whose name may be
\* missing ("")
NameString(name) == [kind |-> "string", name |-> name]
CoreAuthorEntries == {NameString("A"), [kind |-> "object", name |-> "B"],
                      [kind |-> "object", name |-> ""]}
CoreAuthorLists == UNION {[1..n -> CoreAuthorEntries] : n \in 0..MaxAuthors}

\* Array.prototype.slice(0, n)
FirstN(seq, n) == SubSeq(seq, 1, Min(n, Len(seq)))

\* author.name || author
CoreAuthorName(author) ==
    IF author.kind = "object" /\ author.name # ""
    THEN NameString(author.name)
    ELSE author

\* coreSearchTool: result.authors.map(author => author.name || author), then
\* authors.slice(0, 3)
CoreAuthors(authors) ==
    FirstN([k \in DOMAIN authors |-> CoreAuthorName(authors[k])], AUTHORS_SHOWN)

\* the names in the <dc:creator> elements of a J-STAGE record, and those in its
\* <prism:creatorName> elements
CreatorNames == {"A", "B", "C", "D"}
CreatorLists == UNION {[1..n -> CreatorNames] : n \in 0..MaxAuthors}
PrismCreatorLists == {<<>>, <<"A">>, <<"E">>}

RECURSIVE Dedup(_, _)
\* if (author && !authors.includes(author)) authors.push(author)
Dedup(authors, more) ==
    IF more = <<>> THEN authors
    ELSE Dedup(IF Includes(authors, Head(more)) THEN authors
               ELSE Append(authors, Head(more)),
               Tail(more))

\* extractAuthors: the dc:creator names, then the prism:creatorName names,
\* each name once
ExtractAuthors(creators, creatorNames) == Dedup(<<>>, creators \o creatorNames)

\* searchJstage, simplifiedPapers: paper.authors.slice(0, 3)
JstageAuthors(authors) == FirstN(authors, AUTHORS_SHOWN)

ApplyCoreAuthors ==
    /\ probe.fn = "coreAuthors"
    /\ ~probe.done
    /\ probe' = [probe EXCEPT !.res = CoreAuthors(probe.arg), !.done = TRUE]
    /\ UNCHANGED <<toolVars, chatVars>>

ApplyJstageAuthors ==
    /\ probe.fn = "jstageAuthors"
    /\ ~probe.done
    /\ probe' = [probe EXCEPT
           !.res = JstageAuthors(ExtractAuthors(probe.arg.creators,
                                                probe.arg.creatorNames)),
           !.done = TRUE]
    /\ UNCHANGED <<toolVars, chatVars>>

ApplyPdfLink ==
    /\ probe.fn = "pdfLink"
    /\ ~probe.done
    /\ probe' = [probe EXCEPT !.res = ArxivPdfLink(probe.arg), !.done = TRUE]
    /\ UNCHANGED <<toolVars, chatVars>>

ApplyArxivParams ==
    /\ probe.fn = "arxivParams"
    /\ ~probe.done
    /\ probe' = [probe EXCEPT !.res = ArxivMaxResultsSent(probe.arg),
                              !.done = TRUE]
    /\ UNCHANGED <<toolVars, chatVars>>

ApplySSParams ==
    /\ probe.fn = "ssParams"
    /\ ~probe.done
    /\ probe' = [probe EXCEPT !.res = SSLimitSent(probe.arg), !.done = TRUE]
    /\ UNCHANGED <<toolVars, chatVars>>

ApplyJstageParams ==
    /\ probe.fn = "jstageParams"
    /\ ~probe.done
    /\ probe' = [probe EXCEPT !.res = JstageCountSent(probe.arg), !.done = TRUE]
    /\ UNCHANGED <<toolVars, chatVars>>

ApplyCoreParams ==
    /\ probe.fn = "coreParams"
    /\ ~probe.done
    /\ probe' = [probe EXCEPT !.res = CoreLimitSent(probe.arg), !.done = TRUE]
    /\ UNCHANGED <<toolVars, chatVars>>

ApplyParseJstageXML ==
    /\ probe.fn = "parseJstageXML"
    /\ ~probe.done
    /\ probe' = [probe EXCEPT !.res = JstageParse(probe.arg), !.done = TRUE]
    /\ UNCHANGED <<toolVars, chatVars>>

PureNext ==
    \/ ApplyPdfLink
    \/ ApplyArxivParams
    \/ ApplySSParams
    \/ ApplyJstageParams
    \/ ApplyCoreParams
    \/ ApplyParseJstageXML
    \/ ApplyCoreAuthors
    \/ ApplyJstageAuthors

ParamFns == {"arxivParams", "ssParams", "jstageParams", "coreParams"}

InitPure ==
    /\ \/ probe \in [fn : {"pdfLink"}, arg : Links, res : {<<>>},
                     done : {FALSE}]
       \/ probe \in [fn : ParamFns, arg : MaxResultsValues, res : {0},
                     done : {FALSE}]
       \/ probe \in [fn : {"parseJstageXML"}, arg : BlockPayloads,
                     res : {<<>>}, done : {FALSE}]
       \/ probe \in [fn : {"coreAuthors"}, arg : CoreAuthorLists,
                     res : {<<>>}, done : {FALSE}]
       \/ probe \in [fn : {"jstageAuthors"},
                     arg : [creators : CreatorLists,
                            creatorNames : PrismCreatorLists],
                     res : {<<>>}, done : {FALSE}]
    /\ focus = "arxiv"
    /\ clock = EpochStart
    /\ ticks = 0
    /\ lastCall = [s \in Sources |-> 0]
    /\ collected = [s \in Sources |-> <<>>]
    /\ calls = <<>>
    /\ httpLog = [s \in Sources |-> <<0, 0>>]
    /\ keyPresent = TRUE
    /\ genai = FALSE
    /\ cpc = "idle"
    /\ isLoading = FALSE
    /\ streamingMessage = <<>>
    /\ accumulatedText = <<>>
    /\ abortController = FALSE
    /\ messages = <<Welcome>>
    /\ requests = 0
    /\ researchSteps = <<>>
    /\ relay = NoRelay

SpecPure == InitPure /\ [][PureNext]_vars

\* the searches with the collectors' reset: clearCollected*Urls can run at any
\* moment between two steps of a search
CollectNext ==
    \/ ToolNext
    \/ \E s \in Sources : Clear(s)

SpecCollect == InitTools /\ [][CollectNext]_vars

\* the searches of the runs below get a 2xx or a non-2xx response, and every
\* response that is read holds one record
SharedOutcomes == {"ok", "http"}
SharedBodies == {[ok |-> TRUE, payload |-> <<GoodRecord>>, total |-> 0]}

\* searches on several tools in one run: the orchestrator goes from one tool
\* to another between two steps of the searches.  The tools are the three
\* gated sources and, for those without a gate, CORE
MixedTools == Sources \cup {"core"}

MixedNext ==
    \/ \E s \in MixedTools : Turn(s)
    \/ Tick(SEMANTIC_SCHOLAR_COOLDOWN_MS)
    \/ ArxivStart(MainSession)
    \/ \E i \in 1..MaxCalls, o \in SharedOutcomes : ArxivResponse(i, o)
    \/ \E i \in 1..MaxCalls, b \in SharedBodies : ArxivBody(i, b)
    \/ SSStart(MainSession)
    \/ \E i \in 1..MaxCalls : SSTimer(i)
    \/ \E i \in 1..MaxCalls, o \in SharedOutcomes : SSResponse(i, o)
    \/ \E i \in 1..MaxCalls, b \in SharedBodies : SSBody(i, b)
    \/ JstageStart(MainSession)
    \/ \E i \in 1..MaxCalls : JstageTimer(i)
    \/ \E i \in 1..MaxCalls, o \in SharedOutcomes : JstageResponse(i, o)
    \/ \E i \in 1..MaxCalls, b \in SharedBodies : JstageBody(i, b)
    \/ CoreStart
    \/ \E i \in 1..MaxCalls, o \in SharedOutcomes : CoreResponse(i, o)
    \/ \E i \in 1..MaxCalls, b \in SharedBodies : CoreBody(i, b)

InitMixed ==
    /\ focus \in MixedTools
    /\ clock = EpochStart
    /\ ticks = 0
    /\ lastCall = [s \in Sources |-> 0]
    /\ collected = [s \in Sources |-> <<>>]
    /\ calls = <<>>
    /\ httpLog = [s \in Sources |-> <<0, 0>>]
    /\ keyPresent = TRUE
    /\ genai = FALSE
    /\ probe = NoProbe
    /\ cpc = "idle"
    /\ isLoading = FALSE
    /\ streamingMessage = <<>>
    /\ accumulatedText = <<>>
    /\ abortController = FALSE
    /\ messages = <<Welcome>>
    /\ requests = 0
    /\ researchSteps = <<>>
    /\ relay = NoRelay

SpecMixed == InitMixed /\ [][MixedNext]_vars

\* the gated sources searched by the agents of two chat sessions in one
\* process
SharedNext ==
    \/ \E d \in TickSteps : Tick(d)
    \/ \E q \in Sessions : ArxivStart(q)
    \/ \E i \in 1..MaxCalls, o \in SharedOutcomes : ArxivResponse(i, o)
    \/ \E i \in 1..MaxCalls, b \in SharedBodies : ArxivBody(i, b)
    \/ \E q \in Sessions : SSStart(q)
    \/ \E i \in 1..MaxCalls : SSTimer(i)
    \/ \E i \in 1..MaxCalls, o \in SharedOutcomes : SSResponse(i, o)
    \/ \E i \in 1..MaxCalls, b \in SharedBodies : SSBody(i, b)
    \/ \E q \in Sessions : JstageStart(q)
    \/ \E i \in 1..MaxCalls : JstageTimer(i)
    \/ \E i \in 1..MaxCalls, o \in SharedOutcomes : JstageResponse(i, o)
    \/ \E i \in 1..MaxCalls, b \in SharedBodies : JstageBody(i, b)

InitShared ==
    /\ focus \in Sources
    /\ clock = EpochStart
    /\ ticks = 0
    /\ lastCall = [s \in Sources |-> 0]
    /\ collected = [s \in Sources |-> <<>>]
    /\ calls = <<>>
    /\ httpLog = [s \in Sources |-> <<0, 0>>]
    /\ keyPresent = TRUE
    /\ genai = FALSE
    /\ probe = NoProbe
    /\ cpc = "idle"
    /\ isLoading = FALSE
    /\ streamingMessage = <<>>
    /\ accumulatedText = <<>>
    /\ abortController = FALSE
    /\ messages = <<Welcome>>
    /\ requests = 0
    /\ researchSteps = <<>>
    /\ relay = NoRelay

SpecShared == InitShared /\ [][SharedNext]_vars

(***************************************************************************)
(* Properties of the rate gates (checked under SpecTools).                 *)
(***************************************************************************)
\* the locals of invocation i are still there (it has not settled, or it was
\* rejected by the arXiv gate)
HasLocals(i) == calls[i].now # 0

\* C1: an arXiv search that starts less than 30000 ms after the recorded time
\* of the last successful arXiv search is rejected with the cooldown error and
\* issues no HTTP request; one that starts 30000 ms or more after it passes the
\* gate and issues its request, at once.
C1_ArxivGate ==
    \A i \in DOMAIN calls :
        calls[i].src = "arxiv" =>
            /\ HasLocals(i) =>
                 ((calls[i].now - calls[i].seenLast < 30000)
                      <=> (calls[i].cause = "cooldown"))
            /\ calls[i].cause = "cooldown" =>
                 calls[i].pc = "thrown" /\ ~calls[i].sent
            /\ calls[i].cause # "cooldown" =>
                 /\ calls[i].sent
                 /\ calls[i].pc \in {"fetching", "reading"} =>
                      calls[i].sentAt = calls[i].now

\* an arXiv search was rejected 29500 ms after the last successful one
C1_Witness ==
    \E i \in DOMAIN calls :
        /\ calls[i].src = "arxiv"
        /\ calls[i].cause = "cooldown"
        /\ calls[i].seenLast # 0
        /\ calls[i].now - calls[i].seenLast = 29500

\* C2: a Semantic Scholar or J-STAGE search that starts less than 1000 ms
\* after the recorded last call is never rejected by the gate: it waits for the
\* remaining cooldown, and its request goes out no earlier than 1000 ms after
\* the last call the gate read.
C2_BlockingWait ==
    \A i \in DOMAIN calls :
        calls[i].src \in {"ss", "jstage"} =>
            /\ calls[i].cause # "cooldown"
            /\ calls[i].pc = "waiting" =>
                 /\ calls[i].now - calls[i].seenLast < 1000
                 /\ calls[i].wakeAt
                      = calls[i].now + (1000 - (calls[i].now - calls[i].seenLast))
                 /\ ~calls[i].sent
            /\ calls[i].pc \in {"fetching", "reading"} =>
                 /\ calls[i].sent
                 /\ calls[i].sentAt >= calls[i].seenLast + 1000
                 /\ calls[i].wakeAt # 0 => calls[i].sentAt >= calls[i].wakeAt
                 /\ calls[i].wakeAt = 0 => calls[i].sentAt = calls[i].now
            /\ calls[i].pc \in {"returned", "thrown"} => calls[i].sent

\* a search waited out the rest of the cooldown and then sent its request
C2_Witness ==
    \E i \in DOMAIN calls :
        /\ calls[i].src \in {"ss", "jstage"}
        /\ calls[i].pc = "fetching"
        /\ calls[i].wakeAt # 0
        /\ calls[i].now < calls[i].wakeAt
        /\ calls[i].sentAt >= calls[i].wakeAt

\* the cooldown the spec states for a source
SpecCooldown(s) == IF s = "arxiv" THEN 30000 ELSE 1000

\* C3 (as claimed): any two HTTP requests issued to one source are at least
\* that source's cooldown apart, under every interleaving of its invocations.
C3_MinSpacing ==
    \A s \in Sources :
        httpLog[s][1] # 0 => httpLog[s][2] - httpLog[s][1] >= SpecCooldown(s)

\* invocation i of source s gets its response in this step: 2xx, or not
Got2xx(i, s) ==
    /\ i \in DOMAIN calls
    /\ calls[i].src = s
    /\ calls[i].pc = "fetching"
    /\ calls'[i].pc = "reading"

FailedFetch(i, s) ==
    /\ i \in DOMAIN calls
    /\ calls[i].src = s
    /\ calls[i].pc = "fetching"
    /\ calls'[i].pc = "thrown"

\* C4: a source's last-call timestamp is written by a search exactly when that
\* search's HTTP response is 2xx (arXiv records the search's start time, the
\* others the response time); a rejected search, a network error and a non-2xx
\* response leave it as it is, and when nothing else wrote it since the failed
\* search read it, a retry at once is not held up by the cooldown.
C4_Step ==
    \A s \in Sources :
        /\ lastCall'[s] # lastCall[s] => \E i \in DOMAIN calls : Got2xx(i, s)
        /\ \A i \in DOMAIN calls :
             /\ Got2xx(i, s) =>
                  lastCall'[s] = (IF s = "arxiv" THEN calls[i].now ELSE clock)
             /\ FailedFetch(i, s) =>
                  /\ lastCall'[s] = lastCall[s]
                  /\ lastCall[s] = calls[i].seenLast =>
                       clock' - lastCall'[s] >= SpecCooldown(s)
        /\ Len(calls') > Len(calls) => lastCall'[s] = lastCall[s]

C4_TimestampOnSuccessOnly == [][C4_Step]_vars

\* one search of a source failed on a non-2xx response and left no timestamp,
\* another succeeded and left one
C4_Witness ==
    \E i, j \in DOMAIN calls :
        /\ calls[i].src \in Sources
        /\ calls[i].src = calls[j].src
        /\ calls[i].cause = "http"
        /\ calls[j].pc = "returned"
        /\ i < j
        /\ lastCall[calls[j].src] # 0

\* C5: a rejected arXiv search reports ceil((30000 - elapsed) / 1000) seconds;
\* once the caller has waited that long and no other arXiv search has succeeded
\* meanwhile, the gate is open, and a search retried then is not rejected.
C5_RetryAfterCovers ==
    \A i \in DOMAIN calls :
        (calls[i].src = "arxiv" /\ calls[i].cause = "cooldown") =>
            LET remaining == 30000 - (calls[i].now - calls[i].seenLast)
                retryAt == calls[i].now + calls[i].retrySec * 1000
            IN /\ calls[i].retrySec * 1000 >= remaining
               /\ (calls[i].retrySec - 1) * 1000 < remaining
               /\ (lastCall["arxiv"] = calls[i].seenLast /\ clock >= retryAt)
                    => ~ArxivCooldownActive(clock, lastCall["arxiv"])
               /\ \A j \in DOMAIN calls :
                    (/\ j > i
                     /\ calls[j].src = "arxiv"
                     /\ HasLocals(j)
                     /\ calls[j].seenLast = calls[i].seenLast
                     /\ calls[j].now >= retryAt)
                        => calls[j].cause # "cooldown"

\* a search was rejected with half a second of cooldown left, was told to wait
\* one second, and that time has passed with no other successful search
C5_Witness ==
    \E i \in DOMAIN calls :
        /\ calls[i].src = "arxiv"
        /\ calls[i].cause = "cooldown"
        /\ 30000 - (calls[i].now - calls[i].seenLast) = 500
        /\ calls[i].retrySec = 1
        /\ lastCall["arxiv"] = calls[i].seenLast
        /\ clock >= calls[i].now + 1000

\* C10: for arXiv, Semantic Scholar and J-STAGE every per-call failure (the
\* arXiv cooldown rejection, a non-2xx response, a network failure, a failed
\* body read) ends the invocation with a thrown error, and an invocation that
\* returned a value did not fail.
C10_FailuresThrow ==
    \A i \in DOMAIN calls :
        calls[i].src \in {"arxiv", "ss", "jstage"} =>
            /\ calls[i].cause # "none" =>
                 calls[i].pc = "thrown" /\ calls[i].papers = <<>>
            /\ calls[i].pc = "returned" => calls[i].cause = "none"
            /\ calls[i].pc = "thrown" =>
                 calls[i].cause \in {"cooldown", "http", "network", "body",
                                     "record"}

\* a search threw because reading the body of its 2xx response failed
C10_Witness ==
    \E i \in DOMAIN calls :
        /\ calls[i].pc = "thrown"
        /\ calls[i].cause = "body"
        /\ lastCall[calls[i].src] # 0

(***************************************************************************)
(* Properties of the tools' outcomes (checked under SpecTools).            *)
(***************************************************************************)
Over(i) == calls[i].pc \in {"returned", "thrown"}

\* C11 as stated: every failure of a CORE or conference search is converted
\* to the value { papers: [], totalResults: 0 }
C11_AsClaimed ==
    \A i \in DOMAIN calls :
        (calls[i].src \in {"core", "conference"} /\ calls[i].cause # "none") =>
            /\ calls[i].pc = "returned"
            /\ calls[i].papers = <<>>
            /\ "totalResults" \in calls[i].shape
            /\ calls[i].total = 0

\* C11: a CORE or conference search never throws; a failure of a CORE search
\* (non-2xx, network, unreadable body, a record that raises) returns
\* { papers: [], totalResults: 0 }; a failure of a conference search (no key,
\* a failed generation) returns a value with success: true, papers: [], the
\* error text as content and no totalResults field
C11_DegradedNeverThrown ==
    \A i \in DOMAIN calls :
        calls[i].src \in {"core", "conference"} =>
            /\ calls[i].pc # "thrown"
            /\ calls[i].cause # "none" =>
                 /\ calls[i].pc = "returned"
                 /\ calls[i].papers = <<>>
                 /\ calls[i].src = "core" =>
                      /\ calls[i].shape = {"papers", "totalResults"}
                      /\ calls[i].total = 0
                      /\ calls[i].error = ""
                 /\ calls[i].src = "conference" =>
                      /\ "totalResults" \notin calls[i].shape
                      /\ calls[i].success
                      /\ calls[i].error = calls[i].cause

\* a CORE search sent without a key got a non-2xx response and returned the
\* degraded value
C11_Witness ==
    /\ ~keyPresent
    /\ \E i \in DOMAIN calls :
           /\ calls[i].src = "core"
           /\ calls[i].cause = "http"
           /\ calls[i].pc = "returned"
           /\ calls[i].total = 0

\* C12: an invocation of a credentialed tool whose credential is missing ends
\* in a failure (thrown, or success: false) that carries an error text
C12_MissingKeyFailsWithError ==
    \A i \in DOMAIN calls :
        (~keyPresent /\ calls[i].src \in KeyedTools /\ Over(i)) =>
            /\ calls[i].pc = "thrown"
               \/ ("success" \in calls[i].shape /\ ~calls[i].success)
            /\ calls[i].error # ""

\* the identifiers and the titles the payloads hold
RawIds == UNION {{p[k].id : k \in DOMAIN p} : p \in Payloads}
RawTitles == UNION {{p[k].title : k \in DOMAIN p} : p \in Payloads}

\* C13: every paper a search returns has a non-empty identifier and a
\* non-empty title, both taken from the payload
C13_OnlyWellFormedReturned ==
    \A i \in DOMAIN calls :
        (calls[i].src \in Sources \cup {"core"} /\ calls[i].pc = "returned") =>
            \A k \in DOMAIN calls[i].papers :
                /\ calls[i].papers[k].id \in RawIds \ {""}
                /\ calls[i].papers[k].title \in RawTitles \ {""}

\* C14: a search whose response was well-formed and held no record returns
\* papers = [] without an error; its totalResults, where the value has one,
\* is 0 or the count the upstream reported
C14_EmptyPayloadIsSuccess ==
    \A i \in DOMAIN calls :
        calls[i].emptyPayload =>
            /\ calls[i].pc = "returned"
            /\ calls[i].papers = <<>>
            /\ calls[i].cause = "none"
            /\ calls[i].error = ""
            /\ IF "totalResults" \in calls[i].shape
               THEN calls[i].total \in UpstreamTotals
               ELSE calls[i].total = 0

\* a J-STAGE search read a payload without records whose upstream count was 7
C14_Witness ==
    \E i \in DOMAIN calls :
        /\ calls[i].src = "jstage"
        /\ calls[i].emptyPayload
        /\ calls[i].total = 7

(***************************************************************************)
(* Properties of the URL collectors (checked under SpecTools, where no     *)
(* reset happens, and under SpecCollect, where resets happen).             *)
(***************************************************************************)
\* the source field of the entries a tool's searches push
SourceName(s) ==
    CASE s = "arxiv" -> "arXiv"
      [] s = "ss" -> "Semantic Scholar"
      [] s = "jstage" -> "J-STAGE"

\* the collector a tool's searches push to: CORE and the conference search
\* have none
Collector(s) == IF s \in Sources THEN collected[s] ELSE <<>>

RECURSIVE PushedBy(_, _)
\* the number of entries the first n invocations pushed to the collector of s
PushedBy(s, n) ==
    IF n = 0 THEN 0
    ELSE PushedBy(s, n - 1) + (IF calls[n].src = s THEN calls[n].pushed ELSE 0)

\* the invocations that have returned a value
Returned == {i \in DOMAIN calls : calls[i].pc = "returned"}

\* invocation i ends in this step
Ends(i) ==
    /\ i \in DOMAIN calls'
    /\ calls'[i].pc \in {"returned", "thrown"}
    /\ i \in DOMAIN calls => calls[i].pc \notin {"returned", "thrown"}

\* a is the beginning of b
IsPrefix(a, b) == Len(a) <= Len(b) /\ SubSeq(b, 1, Len(a)) = a

\* C15 as stated: after N searches have returned, the collectors hold N entries
C15_AsClaimed ==
    Len(collected["arxiv"]) + Len(collected["ss"]) + Len(collected["jstage"])
        = Cardinality({i \in Returned : calls[i].src \in Sources})

C15_Step ==
    \A s \in Sources :
        \/ collected'[s] = collected[s]
        \/ \E i \in DOMAIN calls' :
               /\ calls'[i].src = s
               /\ Ends(i)
               /\ IsPrefix(collected[s], collected'[s])
               /\ Len(collected'[s]) = Len(collected[s]) + calls'[i].pushed
               /\ calls'[i].pc = "returned" =>
                    collected'[s] =
                        collected[s] \o Entries(calls'[i].papers, SourceName(s))

C15_State ==
    /\ \A s \in Sources : Len(collected[s]) = PushedBy(s, Len(calls))
    /\ \A i \in DOMAIN calls :
           /\ calls[i].pc = "returned" /\ calls[i].src \in Sources =>
                calls[i].pushed = Len(calls[i].papers)
           /\ calls[i].pushed # 0 => calls[i].src \in Sources /\ Over(i)
           /\ (calls[i].pc = "thrown" /\ calls[i].pushed # 0) =>
                calls[i].src = "ss" /\ calls[i].cause = "record"

\* C15: without a reset, each source's collector (arXiv, Semantic Scholar and
\* J-STAGE have one each) holds one entry per paper its searches normalized:
\* a search that returns appends the entries of its papers, in payload order,
\* at the moment it ends, so the entries are in the order the searches ended;
\* beside them are the entries of the records a Semantic Scholar search had
\* mapped before a later record made it throw
C15_OneEntryPerPaper == [][C15_Step]_vars /\ [](C15_State)

\* a Semantic Scholar search that threw on its second record and one that
\* returned two papers have left three entries
C15_Witness ==
    \E i, j \in DOMAIN calls :
        /\ calls[i].src = "ss" /\ calls[i].pc = "thrown" /\ calls[i].pushed = 1
        /\ calls[j].pc = "returned" /\ Len(calls[j].papers) = 2
        /\ Len(collected["ss"]) = 3

C16_Step ==
    \A s \in Sources :
        /\ \/ IsPrefix(collected[s], collected'[s])
           \/ collected'[s] = <<>>
        /\ (\E i \in DOMAIN calls' :
                calls'[i].src = s /\ Ends(i) /\ calls'[i].pc = "thrown") =>
               collected'[s] = collected[s]

\* C16: a collector changes only by growing at its end or by being emptied,
\* and a step in which a search fails leaves it as it was
C16_AppendOrClear == [][C16_Step]_vars

\* C17: every paper of a search that returned has its entry in the collector
C17_EveryPaperCollected ==
    \A i \in Returned :
        calls[i].src \in Sources \cup {"core", "conference"} =>
            \A k \in DOMAIN calls[i].papers :
                \E e \in DOMAIN Collector(calls[i].src) :
                    Collector(calls[i].src)[e].title = calls[i].papers[k].title

(***************************************************************************)
(* Properties of the tools' pure functions (checked under SpecPure).       *)
(***************************************************************************)
\* the function fn has been applied
Applied(fn) == probe.fn = fn /\ probe.done

\* C18: the count a search sends upstream lies within the schema's bounds,
\* whatever maxResults it was called with
C18_CountClamped ==
    (probe.fn \in ParamFns /\ probe.done) =>
        /\ probe.res >= SCHEMA_MIN_RESULTS
        /\ probe.res <= SCHEMA_MAX_RESULTS

\* the place of the first piece of a link that is the given one (0: none)
FirstAt(link, piece) ==
    IF Includes(link, piece)
    THEN CHOOSE k \in DOMAIN link :
             link[k] = piece /\ \A j \in 1..(k - 1) : link[j] # piece
    ELSE 0

\* C19: the pdfLink is the link with its first '/abs/' turned into '/pdf/',
\* followed by '.pdf' exactly when the link does not end with it; so every
\* pdfLink ends with '.pdf', and a link that ends with '.pdf' and has no
\* '/abs/' is returned as it is
C19_PdfLink ==
    Applied("pdfLink") =>
        LET link == probe.arg
            pdfLink == probe.res
        IN /\ EndsWith(pdfLink, ".pdf")
           /\ Len(pdfLink) = Len(link) + (IF EndsWith(link, ".pdf") THEN 0 ELSE 1)
           /\ \A k \in DOMAIN link :
                  pdfLink[k] = IF k = FirstAt(link, "/abs/") THEN "/pdf/"
                               ELSE link[k]
           /\ (EndsWith(link, ".pdf") /\ ~Includes(link, "/abs/")) =>
                  pdfLink = link

\* the abstract-page link '/abs/' + id has become '/pdf/' + id + '.pdf'
C19_Witness ==
    /\ Applied("pdfLink")
    /\ probe.arg = <<"/abs/", "x">>
    /\ probe.res = <<"/pdf/", "x", ".pdf">>

\* the identifiers of the elements of one kind that can be read, in order
ReadableIds(payload, wrap) ==
    LET found == Wrapped(payload, wrap)
        kept == SelectSeqBy(found, {i \in DOMAIN found : ~found[i].bad})
    IN [i \in DOMAIN kept |-> kept[i].id]

\* C20: the parser's records are those of the <entry> elements when the
\* payload has an <entry> element, and those of the <item> elements when it
\* has none
C20_EntryElseItem ==
    Applied("parseJstageXML") =>
        LET ids == [k \in DOMAIN probe.res |-> probe.res[k].id]
        IN IF Wrapped(probe.arg, "entry") # <<>>
           THEN ids = ReadableIds(probe.arg, "entry")
           ELSE ids = ReadableIds(probe.arg, "item")

\* a payload with an <item> and an <entry> element has given the entry's
\* record alone
C20_Witness ==
    /\ Applied("parseJstageXML")
    /\ probe.arg = <<ItemRecord, GoodRecord>>
    /\ Len(probe.res) = 1
    /\ probe.res[1].id = GoodRecord.id

(***************************************************************************)
(* Properties of the state the tools share (checked under SpecMixed, where *)
(* one run searches several tools, and under SpecShared, where the agents  *)
(* of two chat sessions search).                                           *)
(***************************************************************************)
\* invocation i was held up by its gate: rejected, or made to wait
Gated(i) ==
    \/ calls[i].cause = "cooldown"
    \/ calls[i].pc = "waiting"
    \/ calls[i].wakeAt # 0

\* invocation i has had a 2xx response
Had2xx(i) ==
    \/ calls[i].pc \in {"reading", "returned"}
    \/ calls[i].cause \in {"body", "record"}

C21_Step ==
    \A s \in Sources :
        (lastCall'[s] # lastCall[s] \/ collected'[s] # collected[s]) =>
            \E i \in DOMAIN calls : calls[i].src = s /\ calls'[i] # calls[i]

C21_State ==
    \A i \in DOMAIN calls :
        /\ Gated(i) =>
             \E j \in DOMAIN calls :
                 j # i /\ calls[j].src = calls[i].src /\ Had2xx(j)
        /\ calls[i].src \notin Sources => ~Gated(i)

\* C21: a source's last-call timestamp and collector change only in a step of
\* a search on that source; a search is rejected or made to wait only when
\* another search on the same source has had a 2xx response; a CORE search is
\* never held up
C21_SourcesIndependent == [][C21_Step]_vars /\ [](C21_State)

\* a Semantic Scholar search that started in the millisecond recorded by a
\* successful arXiv search has sent its request at once
C21_Witness ==
    \E i, j \in DOMAIN calls :
        /\ calls[i].src = "arxiv" /\ Had2xx(i)
        /\ calls[j].src = "ss" /\ i < j
        /\ calls[j].pc = "fetching"
        /\ calls[j].now = lastCall["arxiv"]
        /\ calls[j].sentAt = calls[j].now

\* no other search of the session of invocation j has had a 2xx response
\* from j's source: a timestamp j's gate read was written for another session
NoOwn2xx(j) ==
    \A k \in DOMAIN calls :
        (k # j /\ calls[k].session = calls[j].session
               /\ calls[k].src = calls[j].src) => ~Had2xx(k)

\* C22: a search that starts within the cooldown of a timestamp recorded for
\* another session's search is held up like any other: an arXiv search is
\* rejected without a request, a Semantic Scholar or J-STAGE search waits
\* until the cooldown is over; and each source's collector holds the entries
\* pushed by the searches of all sessions
C22_NoSessionIsolation ==
    /\ \A j \in DOMAIN calls :
           (/\ HasLocals(j)
            /\ calls[j].seenLast # 0
            /\ calls[j].now - calls[j].seenLast < SpecCooldown(calls[j].src)
            /\ NoOwn2xx(j)) =>
               IF calls[j].src = "arxiv"
               THEN /\ calls[j].cause = "cooldown"
                    /\ calls[j].pc = "thrown"
                    /\ ~calls[j].sent
               ELSE /\ calls[j].wakeAt = calls[j].seenLast + SpecCooldown(calls[j].src)
                    /\ calls[j].sent => calls[j].sentAt >= calls[j].wakeAt
    /\ \A s \in Sources : Len(collected[s]) = PushedBy(s, Len(calls))

\* an arXiv search of one session has returned a paper, and the arXiv search
\* of the other session, started 29500 ms after it, was rejected
C22_Witness ==
    \E i, j \in DOMAIN calls :
        /\ calls[i].src = "arxiv" /\ calls[j].src = "arxiv"
        /\ calls[i].session # calls[j].session
        /\ calls[i].pc = "returned" /\ calls[i].pushed = 1
        /\ calls[j].cause = "cooldown"
        /\ calls[j].now - calls[j].seenLast = 29500
        /\ Len(collected["arxiv"]) = 1

\* C23: the authors of a returned CORE or J-STAGE paper are the first
\* min(3, n) of the record's n authors, in order, each one a name string
C23_FirstThreeNames ==
    /\ Applied("coreAuthors") =>
           /\ Len(probe.res) = Min(AUTHORS_SHOWN, Len(probe.arg))
           /\ \A k \in DOMAIN probe.res :
                  /\ probe.res[k].kind = "string"
                  /\ probe.res[k].name = probe.arg[k].name
                  /\ probe.res[k].name # ""
    /\ Applied("jstageAuthors") =>
           LET full == ExtractAuthors(probe.arg.creators, probe.arg.creatorNames)
           IN /\ Len(probe.res) = Min(AUTHORS_SHOWN, Len(full))
              /\ \A k \in DOMAIN probe.res : probe.res[k] = full[k]

C24_Step == lastCall'["arxiv"] >= lastCall["arxiv"]

\* C24: the arXiv last-call timestamp never goes back, whatever the order in
\* which the responses of concurrent searches arrive
C24_TimestampMonotone == [][C24_Step]_vars

\* C25: a conference search that is over has success = true exactly when the
\* generative search completed, and success = false with an error text
\* exactly when it failed
C25_SuccessIffCompleted ==
    \A i \in DOMAIN calls :
        (calls[i].src = "conference" /\ Over(i)) =>
            /\ calls[i].success <=> calls[i].cause = "none"
            /\ ~calls[i].success => calls[i].error # ""

UserCount(msgs) == Cardinality({i \in DOMAIN msgs : msgs[i].role = "user"})

C26_Step ==
    /\ (requests' # requests \/ UserCount(messages') # UserCount(messages)) =>
           /\ ~isLoading
           /\ probe'.fn = "handleSubmit"
           /\ Trim(probe'.arg) # ""
           /\ requests' = requests + 1
           /\ UserCount(messages') = UserCount(messages) + 1
           /\ isLoading'
    /\ (probe' # probe /\ (probe'.disabled \/ Trim(probe'.arg) = "")) =>
           UNCHANGED chatVars

C26_State ==
    /\ requests = UserCount(messages)
    /\ isLoading <=> cpc # "idle"
    /\ isLoading => relay.clientEnd = "none"
    /\ (~isLoading /\ requests > 0) => relay.clientEnd # "none"

\* C26: a press of the send button while a request is loading, or with an
\* empty or whitespace-only text, adds no user message and issues no request;
\* a request is issued only when the one before it has ended
C26_OneRequestInFlight == [][C26_Step]_vars /\ [](C26_State)

C26_Witness ==
    /\ probe.fn = "handleSubmit"
    /\ probe.arg = "q"
    /\ probe.disabled
    /\ ~probe.sent
    /\ isLoading
    /\ requests = 1
    /\ UserCount(messages) = 1

(***************************************************************************)
(* Properties of the relay and the chat client (checked under SpecChat,    *)
(* progress under SpecChatLive).                                           *)
(***************************************************************************)
RECURSIVE ChunkFrames(_)
\* the chunk frames of a sequence of text stream items
ChunkFrames(items) ==
    IF items = <<>> THEN <<>>
    ELSE <<ChunkFrame(Head(items))>> \o ChunkFrames(Tail(items))

IsTerminal(f) == f.type \in {"done", "error"}

RECURSIVE PayloadText(_)
\* the payloads of the chunk frames among frames, concatenated in order
PayloadText(frames) ==
    IF frames = <<>> THEN <<>>
    ELSE (IF Head(frames).type = "chunk" /\ Head(frames).text # ""
          THEN <<Head(frames).text>> ELSE <<>>) \o PayloadText(Tail(frames))

\* the frames whose bytes have reached the client
Received(rel) == SubSeq(rel.out, 1, rel.readPos)

\* the assistant messages among msgs
Replies(msgs) == SelectSeq(msgs, LAMBDA m : m.role = "assistant")

\* C27: once the done frame has reached the client, the request has got exactly
\* one assistant message, the concatenation in arrival order of the payloads
\* of the chunk frames received, or none when these carry no text
C27_DoneAppendsReply ==
    (relay.readPos >= 1 /\ relay.out[relay.readPos].type = "done") =>
        LET text == PayloadText(Received(relay))
        IN Replies(relay.reply)
             = (IF text # <<>> THEN <<AssistantMessage(text)>> ELSE <<>>)

\* C28: however the bytes are split into reads, the text accumulated for the
\* request is the concatenation of the payloads of the chunk frames that have
\* reached the client, each taken once
C28_EveryFrameOnce ==
    (cpc = "reading" \/ (cpc = "idle" /\ relay.clientEnd \in {"eof", "abort"}
                           /\ relay.readPos > 0)) =>
        accumulatedText = PayloadText(Received(relay))

InProgress(steps) == {i \in DOMAIN steps : steps[i].status = "in-progress"}

\* at most one research step is in progress
C30_OneInProgress == Cardinality(InProgress(researchSteps)) <= 1

\* steps are added behind steps that are all completed
C30_Step ==
    (Len(researchSteps') > Len(researchSteps)) =>
        InProgress(researchSteps') \subseteq {Len(researchSteps')}

\* the done frame has reached the client: every step is completed
C30_DoneCompletes ==
    (cpc = "reading" /\ relay.readPos >= 1
        /\ relay.out[relay.readPos].type = "done") =>
            InProgress(researchSteps) = {}

\* C30: at most one research step is in progress at any time: a phase step is
\* added in progress behind steps all marked completed, and once the done
\* frame has reached the client every step is completed
C30_AtMostOneInProgress ==
    [][C30_Step]_vars /\ [](C30_OneInProgress) /\ [](C30_DoneCompletes)

\* C29: the client adds at most one message that is not the user's own for
\* each message sent
C29_OneAnswerPerMessage == Len(relay.reply) <= 1

TerminalCount(out) == Cardinality({k \in DOMAIN out : IsTerminal(out[k])})

\* the relay's handler has come to its end after it was given a text stream
RelayOver == relay.pc \in {"closed", "crashed"}

\* C6 (as claimed): for every POST with a message and an agent, the relay emits
\* one chunk frame per text stream item, in order, then exactly one terminal
\* frame (done on a normal end, error on a failure), and then nothing more.
C6_AsClaimed ==
    (relay.msg # "" /\ RelayOver) =>
        /\ Len(relay.out) = Len(relay.items) + 1
        /\ SubSeq(relay.out, 1, Len(relay.items)) = ChunkFrames(relay.items)
        /\ IsTerminal(relay.out[Len(relay.out)])

\* C6 (amended): as long as the response stream has not been cancelled by its
\* consumer, the relay emits one chunk frame per text stream item in order and
\* ends with exactly one terminal frame, done on a normal end and error on a
\* failure, after which the stream is closed; once the stream is cancelled the
\* relay emits no further frame at all, so its output stays a prefix of the
\* chunk frames with no terminal frame.  There is never more than one terminal
\* frame and never a frame after it.
C6_FramesThenOneTerminal ==
    /\ TerminalCount(relay.out) <= 1
    /\ \A k \in DOMAIN relay.out :
         IsTerminal(relay.out[k]) => k = Len(relay.out) /\ relay.pc = "closed"
    /\ relay.pc = "streaming" =>
         /\ Len(relay.out) <= Len(relay.items)
         /\ relay.out = ChunkFrames(SubSeq(relay.items, 1, Len(relay.out)))
         /\ ~relay.cancelled => relay.out = ChunkFrames(relay.items)
    /\ relay.pc = "closed" =>
         /\ ~relay.cancelled
         /\ relay.out = ChunkFrames(relay.items)
              \o <<IF relay.threw THEN relay.out[Len(relay.out)] ELSE DoneFrame>>
         /\ relay.out[Len(relay.out)].type
              = (IF relay.threw THEN "error" ELSE "done")
    /\ relay.pc = "crashed" =>
         /\ relay.cancelled
         /\ TerminalCount(relay.out) = 0
         /\ Len(relay.out) < Len(relay.items) + 1
         /\ relay.out = ChunkFrames(SubSeq(relay.items, 1, Len(relay.out)))
    /\ relay.pc \in {"none", "starting", "r400", "r500"} => relay.out = <<>>

\* a relay streamed two items and then failed: two chunk frames and the error
\* frame, closed
C6_Witness ==
    /\ relay.pc = "closed"
    /\ relay.threw
    /\ Len(relay.items) = 2
    /\ Len(relay.out) = 3
    /\ relay.out[3] = ErrorFrame("boom")

\* C7 (as claimed): when the text stream fails, one error frame goes out, and
\* the client that received it has added a system message with the error text
\* and no assistant message for the request.
C7_ErrorBecomesSystemMessage ==
    (relay.threw /\ relay.pc = "closed" /\ relay.clientEnd = "eof") =>
        /\ TerminalCount(relay.out) = 1
        /\ relay.reply = <<StreamErrorMessage(relay.out[Len(relay.out)].text)>>

\* the client is idle, as the finally of handleSendMessage leaves it
ClientIdle ==
    /\ cpc = "idle"
    /\ ~isLoading
    /\ streamingMessage = <<>>
    /\ ~abortController

\* the ways a request ends for the client
EndWays == {"eof", "http", "network", "abort"}

C8_Safe ==
    /\ cpc = "idle" => ClientIdle
    /\ relay.clientEnd # "none" => ClientIdle /\ relay.clientEnd \in EndWays
    /\ (cpc = "idle" /\ requests < MaxRequests) => ENABLED Submit("q")

\* C8: whatever way a chat request ends (done frame, error frame, non-OK HTTP
\* status, network failure, client abort, stream closed without a terminal
\* frame), the client returns to idle (isLoading false, streaming text
\* cleared, abort controller cleared) and accepts a new message; and every
\* request whose relay runs on does end, so the client is idle again.
C8_ReturnsToIdle == [](C8_Safe) /\ ((cpc # "idle") ~> ClientIdle)

\* a first request ended after its done frame, the client accepted a second
\* message, that request was aborted, and the client is idle again
C8_Witness ==
    /\ requests = 2
    /\ ClientIdle
    /\ relay.clientEnd = "abort"
    /\ \E k \in DOMAIN messages : messages[k].kind = "reply"

(***************************************************************************)
(* Abort against searches under way (checked under SpecSession).           *)
(***************************************************************************)
\* the user aborts the request in this step
AbortStep == relay.clientEnd = "none" /\ relay'.clientEnd = "abort"

\* the request was aborted and no new one has been sent
Aborted == relay.clientEnd = "abort" /\ relay'.msg = relay.msg /\ requests' = requests

C9_Step ==
    /\ AbortStep =>
         /\ messages' = Append(messages,
                [role |-> "system", kind |-> "cancelled", text |-> <<>>])
         /\ cpc' = "idle" /\ ~isLoading'
         /\ streamingMessage' = <<>> /\ ~abortController'
         /\ UNCHANGED <<calls, lastCall, collected, httpLog>>
    /\ Aborted =>
         /\ relay'.readPos = relay.readPos
         /\ UNCHANGED <<messages, accumulatedText, streamingMessage, cpc>>
         /\ \A i \in relay.pending :
              /\ Got2xx(i, "arxiv") => lastCall'["arxiv"] = calls[i].now
              /\ (calls[i].pc = "reading" /\ calls'[i].pc = "returned") =>
                   collected'["arxiv"]
                     = collected["arxiv"] \o Entries(calls'[i].papers, "arXiv")

C9_State ==
    relay.clientEnd = "abort" =>
        \A i \in relay.pending :
            /\ calls[i].pc = "fetching" => ENABLED ArxivResponse(i, "ok")
            /\ calls[i].pc = "reading" =>
                 ENABLED ArxivBody(i, [ok |-> TRUE, payload |-> <<GoodRecord>>])

\* C9: a user abort during a request ends the client's consumption of the
\* stream (it appends the cancellation system message, returns to idle and
\* reads no more of the response), and does not touch the searches: an arXiv
\* request already issued stays in flight, can still get its response and its
\* body, and then still records the last-call timestamp and appends to the URL
\* collector.
C9_AbortLeavesSearchesRunning == [][C9_Step]_vars /\ [](C9_State)

\* an arXiv search was in flight when the user aborted, and afterwards it
\* returned, having recorded the timestamp and collected the paper's URL
C9_Witness ==
    /\ relay.clientEnd = "abort"
    /\ \E i \in relay.pending :
         /\ calls[i].src = "arxiv"
         /\ calls[i].pc = "returned"
         /\ calls[i].papers # <<>>
    /\ lastCall["arxiv"] # 0
    /\ collected["arxiv"] # <<>>
    /\ messages[Len(messages)].kind = "cancelled"

====
